---- MODULE Spec2Model ----
(***************************************************************************)
(* A model of the xuma matcher engine (puma/src): the predicate algebra,   *)
(* the Matcher tree with its first-match-wins scan, the depth validation   *)
(* done by the Matcher constructor, and the registry-driven loader with    *)
(* its width and pattern-length limits.                                    *)
(*                                                                         *)
(* Encoding of Python values:                                              *)
(*  - a str is a sequence of characters, a character is a number of Chars; *)
(*  - a MatchingData value is a record [type, val], type the Python type;  *)
(*  - an action value is a TLA+ string; Python's None (as an action value  *)
(*    and as the result of evaluate) is the reserved value None;           *)
(*  - a frozen dataclass is a record with a "type" field and its fields.   *)
(***************************************************************************)
EXTENDS Integers, Sequences, FiniteSets, TLC

VARIABLES
    pc,         \* the last operation performed
    predicate,  \* the Predicate under evaluation, or NoObject
    matcher,    \* the constructed Matcher, or NoObject
    ctx,        \* the context of the last evaluate call
    result,     \* what the last Matcher.evaluate call returned
    verdict,    \* what the last Predicate.evaluate call returned
    trace,      \* the calls made by the last call, in order
    error,      \* the exception the last call raised, or NoError
    args,       \* the arguments of the last Matcher(...) constructor call
    config,     \* the MatcherConfig handed to the last load_matcher call
    nests,      \* how many times the matcher was wrapped as an on_no_match
    document,   \* the document handed to the last parse_matcher_config call
    edit,       \* how that document differs from a valid one
    dicts,      \* the dict objects of the builder and of the registries
    builder,    \* the RegistryBuilder: its two dicts, or NoObject
    registries, \* the Registry objects built so far: the two dicts of each
    self,       \* the Registry of the last load_matcher call
    calls       \* the earlier calls on the object at hand, each with what it gave

vars == <<pc, predicate, matcher, ctx, result, verdict, trace, error, args, config,
          nests, document, edit, dicts, builder, registries, self, calls>>

\* The variables of the registry builder, and the record of earlier calls
regVars == <<dicts, builder, registries, self, calls>>

----------------------------------------------------------------------------
(* Python values *)

\* Python's None as an action value and as the result of Matcher.evaluate.
None == "None"

\* A placeholder for a variable that holds no object yet.
NoObject == [type |-> "NoObject"]

NoError == [kind |-> "NoError"]

\* Characters: 1 = "a", 2 = "b", 3 = "A", 4 = "(".
Chars == 1..4

\* str.casefold on the model's alphabet: "A" folds to "a".
Casefold(s) == [i \in 1..Len(s) |-> IF s[i] = 3 THEN 1 ELSE s[i]]

\* MatchingData = str | int | bool | bytes | None
StrData(s) == [type |-> "str", val |-> s]
IntData(n) == [type |-> "int", val |-> <<n>>]
BoolData(b) == [type |-> "bool", val |-> <<IF b THEN 1 ELSE 0>>]
BytesData(s) == [type |-> "bytes", val |-> s]
NoneData == [type |-> "NoneType", val |-> <<>>]

IsInstanceStr(value) == value.type = "str"

\* str.startswith, str.endswith, the `in` operator on str
StartsWith(s, p) == Len(p) <= Len(s) /\ SubSeq(s, 1, Len(p)) = p
EndsWith(s, p) == Len(p) <= Len(s) /\ SubSeq(s, Len(s) - Len(p) + 1, Len(s)) = p
Contains(s, sub) ==
    \E i \in 0..(Len(s) - Len(sub)) : SubSeq(s, i + 1, i + Len(sub)) = sub

\* "c" * n
Repeat(c, n) == [i \in 1..n |-> c]

----------------------------------------------------------------------------
(* _string_matchers.py: the built-in InputMatchers *)

ExactMatcher(value, ignore_case) ==
    [type |-> "ExactMatcher", value |-> value, ignore_case |-> ignore_case,
     cmp_value |-> IF ignore_case THEN Casefold(value) ELSE value]

PrefixMatcher(prefix, ignore_case) ==
    [type |-> "PrefixMatcher", prefix |-> prefix, ignore_case |-> ignore_case,
     cmp_prefix |-> IF ignore_case THEN Casefold(prefix) ELSE prefix]

SuffixMatcher(suffix, ignore_case) ==
    [type |-> "SuffixMatcher", suffix |-> suffix, ignore_case |-> ignore_case,
     cmp_suffix |-> IF ignore_case THEN Casefold(suffix) ELSE suffix]

ContainsMatcher(substring, ignore_case) ==
    [type |-> "ContainsMatcher", substring |-> substring,
     ignore_case |-> ignore_case,
     cmp_substring |-> IF ignore_case THEN Casefold(substring) ELSE substring]

\* re2.compile on the model's alphabet: "a", "b" and "A" are literals and "("
\* opens a group that nothing can close, so re2 raises re2.error for it.
Re2Compiles(pattern) == \A i \in 1..Len(pattern) : pattern[i] # 4

\* RegexMatcher.__post_init__ for a pattern re2 compiles; the compiled
\* automaton of a literal pattern searches for the pattern as a substring.
RegexMatcher(pattern) ==
    [type |-> "RegexMatcher", pattern |-> pattern, compiled |-> pattern]

\* An InputMatcher of the caller's own (the protocol of _types.py): a total
\* function of MatchingData, given by the set of values it accepts.
CustomMatcher(accepts) == [type |-> "CustomMatcher", accepts |-> accepts]

ExactMatches(m, value) ==
    IF ~IsInstanceStr(value) THEN FALSE
    ELSE LET input_val == IF m.ignore_case THEN Casefold(value.val) ELSE value.val
         IN  input_val = m.cmp_value

PrefixMatches(m, value) ==
    IF ~IsInstanceStr(value) THEN FALSE
    ELSE LET input_val == IF m.ignore_case THEN Casefold(value.val) ELSE value.val
         IN  StartsWith(input_val, m.cmp_prefix)

SuffixMatches(m, value) ==
    IF ~IsInstanceStr(value) THEN FALSE
    ELSE LET input_val == IF m.ignore_case THEN Casefold(value.val) ELSE value.val
         IN  EndsWith(input_val, m.cmp_suffix)

ContainsMatches(m, value) ==
    IF ~IsInstanceStr(value) THEN FALSE
    ELSE LET input_val == IF m.ignore_case THEN Casefold(value.val) ELSE value.val
         IN  Contains(input_val, m.cmp_substring)

RegexMatches(m, value) ==
    IF ~IsInstanceStr(value) THEN FALSE
    ELSE Contains(value.val, m.compiled)

\* InputMatcher.matches, dispatched on the matcher's class
Matches(m, value) ==
    CASE m.type = "ExactMatcher" -> ExactMatches(m, value)
      [] m.type = "PrefixMatcher" -> PrefixMatches(m, value)
      [] m.type = "SuffixMatcher" -> SuffixMatches(m, value)
      [] m.type = "ContainsMatcher" -> ContainsMatches(m, value)
      [] m.type = "RegexMatcher" -> RegexMatches(m, value)
      [] m.type = "CustomMatcher" -> value \in m.accepts

----------------------------------------------------------------------------
(* testing.py: DictInput *)

DictInput(key) == [type |-> "DictInput", key |-> key]

\* DictInput.get: ctx.get(key), None when the key is missing
InputGet(input, c) == c[input.key]

----------------------------------------------------------------------------
(* _predicate.py: the predicate algebra.  Every evaluate returns its value *)
(* together with the calls it made: [ev, at], `at` the path of the node in *)
(* the tree the outermost call was made on.                                *)

SinglePredicate(input, m) == [type |-> "SinglePredicate", input |-> input, matcher |-> m]
And(predicates) == [type |-> "And", predicates |-> predicates]
Or(predicates) == [type |-> "Or", predicates |-> predicates]
Not(p) == [type |-> "Not", predicate |-> p]

Ev(ev, at) == [ev |-> ev, at |-> at]

\* SinglePredicate.evaluate without the `is None` test
SinglePredicateEvaluateNoGuard(p, c, at) ==
    LET value == InputGet(p.input, c)
    IN  [val |-> Matches(p.matcher, value),
         tr |-> <<Ev("get", at), Ev("matches", at)>>]

\* SinglePredicate.evaluate
SinglePredicateEvaluate(p, c, at) ==
    LET value == InputGet(p.input, c)
    IN  IF value = NoneData
        THEN [val |-> FALSE, tr |-> <<Ev("get", at)>>]
        ELSE [val |-> Matches(p.matcher, value),
              tr |-> <<Ev("get", at), Ev("matches", at)>>]

RECURSIVE PredicateEvaluate(_, _, _)
RECURSIVE AllEvaluate(_, _, _, _)
RECURSIVE AnyEvaluate(_, _, _, _)

\* all(...) taken to be False of nothing
AllEmptyFalse == FALSE

\* all(...) over an exhausted generator
AllEmpty == TRUE

\* any(...) over an exhausted generator
AnyEmpty == FALSE

\* And.evaluate over a list instead of a generator: every child is evaluated
\* before all() looks at the first.
AllEvaluateEager(ps, c, at, i) ==
    IF i > Len(ps) THEN [val |-> AllEmpty, tr |-> <<>>]
    ELSE LET r == PredicateEvaluate(ps[i], c, at \o <<i>>)
             rest == AllEvaluate(ps, c, at, i + 1)
         IN  [val |-> r.val /\ rest.val, tr |-> r.tr \o rest.tr]

\* And.evaluate: all(p.evaluate(ctx) for p in self.predicates), from child i
AllEvaluate(ps, c, at, i) ==
    IF i > Len(ps) THEN [val |-> AllEmpty, tr |-> <<>>]
    ELSE LET r == PredicateEvaluate(ps[i], c, at \o <<i>>)
         IN  IF ~r.val THEN [val |-> FALSE, tr |-> r.tr]
             ELSE LET rest == AllEvaluate(ps, c, at, i + 1)
                  IN  [val |-> rest.val, tr |-> r.tr \o rest.tr]

\* Or.evaluate: any(p.evaluate(ctx) for p in self.predicates), from child i
AnyEvaluate(ps, c, at, i) ==
    IF i > Len(ps) THEN [val |-> AnyEmpty, tr |-> <<>>]
    ELSE LET r == PredicateEvaluate(ps[i], c, at \o <<i>>)
         IN  IF r.val THEN [val |-> TRUE, tr |-> r.tr]
             ELSE LET rest == AnyEvaluate(ps, c, at, i + 1)
                  IN  [val |-> rest.val, tr |-> r.tr \o rest.tr]

\* A Not.evaluate through which absent data passes as false
NotEvaluateAbsentFalse(p, c, at) ==
    LET r == PredicateEvaluate(p.predicate, c, at \o <<1>>)
    IN  IF p.predicate.type = "SinglePredicate" /\ c[p.predicate.input.key] = NoneData
        THEN [val |-> FALSE, tr |-> r.tr]
        ELSE [val |-> ~r.val, tr |-> r.tr]

\* Not.evaluate
NotEvaluate(p, c, at) ==
    LET r == PredicateEvaluate(p.predicate, c, at \o <<1>>)
    IN  [val |-> ~r.val, tr |-> r.tr]

\* p.evaluate(ctx), dispatched on the predicate's class
PredicateEvaluate(p, c, at) ==
    LET r == CASE p.type = "SinglePredicate" -> SinglePredicateEvaluate(p, c, at)
               [] p.type = "And" -> AllEvaluate(p.predicates, c, at, 1)
               [] p.type = "Or" -> AnyEvaluate(p.predicates, c, at, 1)
               [] p.type = "Not" -> NotEvaluate(p, c, at)
    IN  [val |-> r.val, tr |-> <<Ev("predicate", at)>> \o r.tr]

\* max(xs, default=default)
MaxOf(xs, default) ==
    IF xs = {} THEN default ELSE CHOOSE x \in xs : \A y \in xs : y <= x

RECURSIVE predicate_depth(_)
RECURSIVE MaxPredicateDepth(_)

\* max((predicate_depth(sub) for sub in ps), default=0), from child i
MaxPredicateDepth(ps) ==
    MaxOf({predicate_depth(ps[i]) : i \in DOMAIN ps}, 0)

predicate_depth(p) ==
    CASE p.type = "SinglePredicate" -> 1
      [] p.type \in {"And", "Or"} -> 1 + MaxPredicateDepth(p.predicates)
      [] p.type = "Not" -> 1 + predicate_depth(p.predicate)
      [] OTHER -> 0

----------------------------------------------------------------------------
(* _matcher.py: OnMatch, FieldMatcher, Matcher *)

MAX_DEPTH == 32

Action(value) == [type |-> "Action", value |-> value]
NestedMatcher(m) == [type |-> "NestedMatcher", matcher |-> m]
FieldMatcher(p, on_match) == [predicate |-> p, on_match |-> on_match]

\* on_no_match = None
NoOnMatch == [type |-> "NoneType"]

\* The fields of a Matcher; the constructor also runs __post_init__.
MatcherFields(matcher_list, on_no_match) ==
    [type |-> "Matcher", matcher_list |-> matcher_list, on_no_match |-> on_no_match]

RECURSIVE MatcherEvaluate(_, _, _)
RECURSIVE Scan(_, _, _, _)
RECURSIVE evaluate_on_match(_, _, _)

\* _evaluate_on_match
evaluate_on_match(on_match, c, at) ==
    CASE on_match.type = "Action" ->
            [res |-> on_match.value, tr |-> <<Ev("action", at)>>]
      [] on_match.type = "NestedMatcher" ->
            MatcherEvaluate(on_match.matcher, c, at)
      [] OTHER -> [res |-> None, tr |-> <<>>]

\* The test the scan makes of an on_match's result: `result is not None`.
IsResult(res) == res # None

\* The scan without the `return result` of the loop: it runs to the end.
ScanNoReturn(m, c, at, i) ==
    IF i > Len(m.matcher_list)
    THEN IF m.on_no_match # NoOnMatch
         THEN LET r == evaluate_on_match(m.on_no_match, c, at \o <<0>>)
              IN  [res |-> r.res, tr |-> <<Ev("on_no_match", at)>> \o r.tr]
         ELSE [res |-> None, tr |-> <<>>]
    ELSE LET fm == m.matcher_list[i]
             pr == PredicateEvaluate(fm.predicate, c, at \o <<i, 1>>)
             rest == Scan(m, c, at, i + 1)
         IN  IF pr.val
             THEN LET r == evaluate_on_match(fm.on_match, c, at \o <<i, 2>>)
                  IN  [res |-> rest.res, tr |-> pr.tr \o r.tr \o rest.tr]
             ELSE [res |-> rest.res, tr |-> pr.tr \o rest.tr]

\* The scan giving up on the siblings when an on_match gives None: it goes
\* straight to on_no_match.
ScanNoSibling(m, c, at, i) ==
    IF i > Len(m.matcher_list)
    THEN IF m.on_no_match # NoOnMatch
         THEN LET r == evaluate_on_match(m.on_no_match, c, at \o <<0>>)
              IN  [res |-> r.res, tr |-> <<Ev("on_no_match", at)>> \o r.tr]
         ELSE [res |-> None, tr |-> <<>>]
    ELSE LET fm == m.matcher_list[i]
             pr == PredicateEvaluate(fm.predicate, c, at \o <<i, 1>>)
         IN  IF pr.val
             THEN LET r == evaluate_on_match(fm.on_match, c, at \o <<i, 2>>)
                  IN  IF IsResult(r.res)
                      THEN [res |-> r.res, tr |-> pr.tr \o r.tr]
                      ELSE LET rest == Scan(m, c, at, Len(m.matcher_list) + 1)
                           IN  [res |-> rest.res,
                                tr |-> pr.tr \o r.tr \o rest.tr]
             ELSE LET rest == Scan(m, c, at, i + 1)
                  IN  [res |-> rest.res, tr |-> pr.tr \o rest.tr]

\* The scan consulting on_no_match only when there are field matchers.
ScanNoFallbackWhenEmpty(m, c, at, i) ==
    IF i > Len(m.matcher_list)
    THEN IF m.on_no_match # NoOnMatch /\ Len(m.matcher_list) > 0
         THEN LET r == evaluate_on_match(m.on_no_match, c, at \o <<0>>)
              IN  [res |-> r.res, tr |-> <<Ev("on_no_match", at)>> \o r.tr]
         ELSE [res |-> None, tr |-> <<>>]
    ELSE LET fm == m.matcher_list[i]
             pr == PredicateEvaluate(fm.predicate, c, at \o <<i, 1>>)
         IN  IF pr.val
             THEN LET r == evaluate_on_match(fm.on_match, c, at \o <<i, 2>>)
                  IN  IF IsResult(r.res)
                      THEN [res |-> r.res, tr |-> pr.tr \o r.tr]
                      ELSE LET rest == Scan(m, c, at, i + 1)
                           IN  [res |-> rest.res,
                                tr |-> pr.tr \o r.tr \o rest.tr]
             ELSE LET rest == Scan(m, c, at, i + 1)
                  IN  [res |-> rest.res, tr |-> pr.tr \o rest.tr]

\* Matcher.evaluate from field matcher i on: the for loop, then on_no_match.
Scan(m, c, at, i) ==
    IF i > Len(m.matcher_list)
    THEN IF m.on_no_match # NoOnMatch
         THEN LET r == evaluate_on_match(m.on_no_match, c, at \o <<0>>)
              IN  [res |-> r.res, tr |-> <<Ev("on_no_match", at)>> \o r.tr]
         ELSE [res |-> None, tr |-> <<>>]
    ELSE LET fm == m.matcher_list[i]
             pr == PredicateEvaluate(fm.predicate, c, at \o <<i, 1>>)
         IN  IF pr.val
             THEN LET r == evaluate_on_match(fm.on_match, c, at \o <<i, 2>>)
                  IN  IF IsResult(r.res)
                      THEN [res |-> r.res, tr |-> pr.tr \o r.tr]
                      ELSE LET rest == Scan(m, c, at, i + 1)
                           IN  [res |-> rest.res,
                                tr |-> pr.tr \o r.tr \o rest.tr]
             ELSE LET rest == Scan(m, c, at, i + 1)
                  IN  [res |-> rest.res, tr |-> pr.tr \o rest.tr]

\* Matcher.evaluate
MatcherEvaluate(m, c, at) ==
    LET r == Scan(m, c, at, 1)
    IN  [res |-> r.res, tr |-> <<Ev("evaluate", at)>> \o r.tr]

RECURSIVE MatcherDepth(_)
RECURSIVE on_match_depth(_)
RECURSIVE MaxFieldPredicateDepth(_)
RECURSIVE MaxFieldOnMatchDepth(_)

Max(a, b) == IF a > b THEN a ELSE b

\* An _on_match_depth that counts the NestedMatcher wrapper as a level
on_match_depth_counting(on_match) ==
    CASE on_match.type = "Action" -> 0
      [] on_match.type = "NestedMatcher" -> 1 + MatcherDepth(on_match.matcher)
      [] OTHER -> 0

\* _on_match_depth
on_match_depth(on_match) ==
    CASE on_match.type = "Action" -> 0
      [] on_match.type = "NestedMatcher" -> MatcherDepth(on_match.matcher)
      [] OTHER -> 0

\* max((predicate_depth(fm.predicate) for fm in self.matcher_list), default=0)
MaxFieldPredicateDepth(fms) ==
    MaxOf({predicate_depth(fms[i].predicate) : i \in DOMAIN fms}, 0)

\* max((_on_match_depth(fm.on_match) for fm in self.matcher_list), default=0)
MaxFieldOnMatchDepth(fms) ==
    MaxOf({on_match_depth(fms[i].on_match) : i \in DOMAIN fms}, 0)

\* Matcher.depth
MatcherDepth(m) ==
    LET max_predicate == MaxFieldPredicateDepth(m.matcher_list)
        max_nested == MaxFieldOnMatchDepth(m.matcher_list)
        no_match_depth == IF m.on_no_match # NoOnMatch
                          THEN on_match_depth(m.on_no_match) ELSE 0
    IN  1 + Max(Max(max_predicate, max_nested), no_match_depth)

\* A validate that lets one level too many through
ValidateRaisesLax(m) == MatcherDepth(m) > MAX_DEPTH + 1

\* Matcher.validate raises MatcherError: d > MAX_DEPTH
ValidateRaises(m) == MatcherDepth(m) > MAX_DEPTH

----------------------------------------------------------------------------
(* The inputs the operations are called with *)

MaxChildren == 2
MaxFieldMatchers == 2

\* All sequences over S of length at most n
SeqsUpTo(S, n) == UNION {[1..k -> S] : k \in 0..n}

Keys == {"x", "y"}
Values == {NoneData, StrData(<<>>), StrData(<<1>>), IntData(0)}
Contexts == [Keys -> Values]

AnyMatcher == CustomMatcher(Values)
LeafMatchers == {ExactMatcher(<<1>>, FALSE), PrefixMatcher(<<>>, FALSE), AnyMatcher}
Leaves == {SinglePredicate(DictInput(k), m) : k \in Keys, m \in LeafMatchers}

PX == SinglePredicate(DictInput("x"), ExactMatcher(<<1>>, FALSE))
PY == SinglePredicate(DictInput("y"), ExactMatcher(<<1>>, FALSE))
PAny == SinglePredicate(DictInput("x"), AnyMatcher)

ChildPool == {PX, PY, PAny, Not(PY), And(<<>>), Or(<<>>)}
PredicatePool ==
    Leaves \cup {Not(l) : l \in Leaves}
           \cup {And(ps) : ps \in SeqsUpTo(ChildPool, MaxChildren)}
           \cup {Or(ps) : ps \in SeqsUpTo(ChildPool, MaxChildren)}
           \cup {Not(And(<<PX, Or(<<PY, PAny>>)>>))}

Inner == MatcherFields(<<FieldMatcher(PY, Action("n1"))>>, NoOnMatch)
FieldPredicates == {PX, And(<<>>)}
OnMatches == {Action("a1"), Action("a2"), Action(None), NestedMatcher(Inner)}
FieldMatchers == {FieldMatcher(p, om) : p \in FieldPredicates, om \in OnMatches}
OnNoMatches == {NoOnMatch, Action("d"), NestedMatcher(Inner)}

----------------------------------------------------------------------------
(* The operations *)

Init ==
    /\ pc = "init"
    /\ predicate = NoObject
    /\ matcher = NoObject
    /\ ctx = NoObject
    /\ result = None
    /\ verdict = FALSE
    /\ trace = <<>>
    /\ error = NoError
    /\ args = NoObject
    /\ config = NoObject
    /\ nests = 0
    /\ document = NoObject
    /\ edit = NoObject
    /\ dicts = <<>>
    /\ builder = NoObject
    /\ registries = <<>>
    /\ self = NoObject
    /\ calls = <<>>

\* A predicate is built: the dataclasses of _predicate.py validate nothing.
NewPredicate ==
    /\ pc = "init"
    /\ \E p \in PredicatePool : predicate' = p
    /\ pc' = "predicate"
    /\ UNCHANGED <<matcher, ctx, result, verdict, trace, error, args, config, nests,
                   document, edit>>
    /\ UNCHANGED regVars

\* predicate.evaluate(c)
EvaluatePredicate ==
    /\ predicate # NoObject
    /\ \E c \in Contexts :
          LET r == PredicateEvaluate(predicate, c, <<>>)
          IN  /\ ctx' = c
              /\ verdict' = r.val
              /\ trace' = r.tr
    /\ pc' = "predicate evaluated"
    /\ UNCHANGED <<predicate, matcher, result, error, args, config, nests, document, edit>>
    /\ UNCHANGED regVars

\* Matcher(matcher_list, on_no_match): the fields are set and __post_init__
\* validates the depth; when it raises, no Matcher is returned.
Construct(matcher_list, on_no_match) ==
    LET m == MatcherFields(matcher_list, on_no_match)
    IN  /\ args' = m
        /\ IF ValidateRaises(m)
           THEN /\ error' = [kind |-> "MatcherError"]
                /\ pc' = "raised"
                /\ UNCHANGED matcher
           ELSE /\ matcher' = m
                /\ error' = NoError
                /\ pc' = "constructed"

NewMatcher ==
    /\ pc = "init"
    /\ \E fms \in SeqsUpTo(FieldMatchers, MaxFieldMatchers), onm \in OnNoMatches :
          Construct(fms, onm)
    /\ UNCHANGED <<predicate, ctx, result, verdict, trace, config, nests, document, edit>>
    /\ UNCHANGED regVars

\* matcher.evaluate(c)
Evaluate ==
    /\ matcher # NoObject
    /\ \E c \in Contexts :
          LET r == MatcherEvaluate(matcher, c, <<>>)
          IN  /\ ctx' = c
              /\ result' = r.res
              /\ trace' = r.tr
    /\ pc' = "evaluated"
    /\ UNCHANGED <<predicate, matcher, verdict, error, args, config, nests, document, edit>>
    /\ UNCHANGED regVars

Next == NewPredicate \/ EvaluatePredicate \/ NewMatcher \/ Evaluate

Spec == Init /\ [][Next]_vars

----------------------------------------------------------------------------
(* The reference semantics the claims are stated against: what a predicate *)
(* and a matcher denote, with no order of evaluation.                      *)

RECURSIVE Holds(_, _)
Holds(p, c) ==
    CASE p.type = "SinglePredicate" ->
            /\ c[p.input.key] # NoneData
            /\ Matches(p.matcher, c[p.input.key])
      [] p.type = "And" -> \A i \in 1..Len(p.predicates) : Holds(p.predicates[i], c)
      [] p.type = "Or" -> \E i \in 1..Len(p.predicates) : Holds(p.predicates[i], c)
      [] p.type = "Not" -> ~Holds(p.predicate, c)

RECURSIVE Denotes(_, _)
RECURSIVE Yields(_, _)
RECURSIVE Outcome(_, _)

\* What an OnMatch gives: the action's value, or what the nested matcher denotes
Outcome(om, c) ==
    IF om.type = "Action" THEN om.value ELSE Denotes(om.matcher, c)

\* What a field matcher gives: None when its predicate is false
Yields(fm, c) ==
    IF Holds(fm.predicate, c) THEN Outcome(fm.on_match, c) ELSE None

\* The field matchers of m that give a result
Hits(m, c) == {i \in 1..Len(m.matcher_list) : Yields(m.matcher_list[i], c) # None}

Least(S) == CHOOSE i \in S : \A j \in S : i <= j

Denotes(m, c) ==
    IF Hits(m, c) # {} THEN Yields(m.matcher_list[Least(Hits(m, c))], c)
    ELSE IF m.on_no_match # NoOnMatch THEN Outcome(m.on_no_match, c)
    ELSE None

(* The trace of the last call *)

\* The calls made inside top-level field matcher i (0: inside on_no_match)
CallsIn(i) == {k \in DOMAIN trace : trace[k].at # <<>> /\ trace[k].at[1] = i}

\* No call was made inside a field matcher after i, nor inside on_no_match
NothingAfter(i) ==
    \A k \in DOMAIN trace : trace[k].at # <<>> => trace[k].at[1] \in 1..i

\* on_no_match was consulted by the outermost matcher
FallbackConsulted == \E k \in DOMAIN trace : trace[k] = Ev("on_no_match", <<>>)

\* Field matchers (children, for a compound predicate) are visited in
\* declaration order: the index of the top-level child never decreases,
\* on_no_match (0) coming last.
InDeclarationOrder ==
    \A k1, k2 \in DOMAIN trace :
        (k1 < k2 /\ trace[k1].at # <<>> /\ trace[k2].at # <<>>) =>
            \/ trace[k2].at[1] = 0
            \/ (trace[k1].at[1] # 0 /\ trace[k1].at[1] <= trace[k2].at[1])

----------------------------------------------------------------------------
(* C1: first-match-wins.  After m.evaluate(c), when some field matcher     *)
(* gives a non-None result, the result is that of the first such field     *)
(* matcher i, the field matchers 1..i were visited in declaration order,   *)
(* nothing of a field matcher j > i was evaluated, and on_no_match was not *)
(* consulted.                                                              *)
C1_FirstMatchWins ==
    (pc = "evaluated" /\ Hits(matcher, ctx) # {}) =>
        LET i == Least(Hits(matcher, ctx))
        IN  /\ result = Yields(matcher.matcher_list[i], ctx)
            /\ result # None
            /\ NothingAfter(i)
            /\ \A j \in 1..i : Ev("predicate", <<j, 1>>) \in {trace[k] : k \in DOMAIN trace}
            /\ InDeclarationOrder
            /\ ~FallbackConsulted

C1_Witness ==
    /\ pc = "evaluated"
    /\ Len(matcher.matcher_list) = 2
    /\ Hits(matcher, ctx) = {1, 2}
    /\ matcher.matcher_list[1].on_match = Action("a1")
    /\ matcher.matcher_list[2].on_match = Action("a2")
    /\ matcher.on_no_match = Action("d")
    /\ result = "a1"

----------------------------------------------------------------------------
(* C2: nested-failure local propagation.  When the nested matcher of field *)
(* matcher i was evaluated and gave None, the next call is the predicate   *)
(* of field matcher i+1 (on_no_match, or nothing, after the last field     *)
(* matcher), and on_no_match is consulted only after every field matcher   *)
(* after i was evaluated and gave no result.                               *)
LastCallIn(i) == CHOOSE k \in CallsIn(i) : \A j \in CallsIn(i) : j <= k

FallbackCall == CHOOSE k \in DOMAIN trace : trace[k] = Ev("on_no_match", <<>>)

NestedFailed(i) ==
    /\ matcher.matcher_list[i].on_match.type = "NestedMatcher"
    /\ \E k \in DOMAIN trace : trace[k] = Ev("evaluate", <<i, 2>>)
    /\ Denotes(matcher.matcher_list[i].on_match.matcher, ctx) = None

C3_OnNoMatchFallback ==
    pc = "evaluated" =>
        LET nohit == Hits(matcher, ctx) = {}
            onm == matcher.on_no_match
        IN  /\ FallbackConsulted <=> (nohit /\ onm # NoOnMatch)
            /\ (nohit /\ onm = NoOnMatch) => result = None
            /\ (nohit /\ onm.type = "Action") => result = onm.value
            /\ (nohit /\ onm.type = "NestedMatcher") =>
                  /\ result = Denotes(onm.matcher, ctx)
                  /\ \E k \in DOMAIN trace : trace[k] = Ev("evaluate", <<0>>)
            /\ ~nohit => result # None

C3_Witness ==
    /\ pc = "evaluated"
    /\ matcher.matcher_list = <<>>
    /\ matcher.on_no_match = NestedMatcher(Inner)
    /\ result = "n1"

(* C4: None -> false.  SinglePredicate.evaluate(c) is false when           *)
(* input.get(c) is None, whatever the matcher, and matcher.matches is not  *)
(* called; otherwise matches is called and its answer is the result.       *)
MatchesCalled == \E k \in DOMAIN trace : trace[k].ev = "matches"

C4_NoneIsFalse ==
    (pc = "predicate evaluated" /\ predicate.type = "SinglePredicate") =>
        LET value == ctx[predicate.input.key]
        IN  IF value = NoneData
            THEN ~verdict /\ ~MatchesCalled
            ELSE verdict = Matches(predicate.matcher, value) /\ MatchesCalled

C4_Witness ==
    /\ pc = "predicate evaluated"
    /\ predicate = SinglePredicate(DictInput("x"), AnyMatcher)
    /\ ctx["x"] = NoneData
    /\ NoneData \in predicate.matcher.accepts
    /\ ~verdict

(* C5: And and Or evaluate their children in declaration order and stop at *)
(* the deciding child (the first false child of And, the first true child  *)
(* of Or): every child up to it is evaluated, nothing of a later child is, *)
(* and the result is the conjunction (disjunction) of the children.        *)
Deciding(p, c) ==
    {i \in 1..Len(p.predicates) : Holds(p.predicates[i], c) = (p.type = "Or")}

Evaluated(i) == \E k \in DOMAIN trace : trace[k] = Ev("predicate", <<i>>)

C5_ShortCircuit ==
    (pc = "predicate evaluated" /\ predicate.type \in {"And", "Or"}) =>
        LET n == Len(predicate.predicates)
            last == IF Deciding(predicate, ctx) = {} THEN n
                    ELSE Least(Deciding(predicate, ctx))
        IN  /\ verdict = Holds(predicate, ctx)
            /\ \A i \in 1..last : Evaluated(i)
            /\ NothingAfter(last)
            /\ InDeclarationOrder

C5_Witness ==
    /\ pc = "predicate evaluated"
    /\ predicate = And(<<PX, PY>>)
    /\ ~Holds(PX, ctx)
    /\ Holds(PY, ctx)
    /\ ~verdict
    /\ ~Evaluated(2)

(* C6: vacuous truths.  For every context And with no children evaluates   *)
(* to true and Or with no children to false.                               *)
C6_VacuousTruths ==
    pc = "predicate evaluated" =>
        /\ predicate = And(<<>>) => verdict
        /\ predicate = Or(<<>>) => ~verdict

C6_Witness ==
    /\ pc = "predicate evaluated"
    /\ predicate = And(<<>>)
    /\ verdict

(* C10: an Action outcome returns at once.  When the on_match of field     *)
(* matcher i is an Action and was consulted (the predicate was true),      *)
(* evaluate returns the action's value, whatever value it is, evaluates    *)
(* nothing of a later field matcher and does not consult on_no_match.      *)
ActionConsulted(i) == \E k \in DOMAIN trace : trace[k] = Ev("action", <<i, 2>>)

C10_ActionReturnsAtOnce ==
    pc = "evaluated" =>
        \A i \in 1..Len(matcher.matcher_list) :
            ActionConsulted(i) =>
                /\ result = matcher.matcher_list[i].on_match.value
                /\ NothingAfter(i)
                /\ ~FallbackConsulted

----------------------------------------------------------------------------
(* _config.py: the config AST *)

\* A config payload is read by the factories with config.get("key"): it is
\* modelled by what that gives, None for a missing key or a non-str value.
TypedConfig(type_url, key) == [type_url |-> type_url, config |-> [key |-> key]]
BuiltInMatch(variant, value) == [type |-> "BuiltInMatch", variant |-> variant, value |-> value]
CustomMatch(typed_config) == [type |-> "CustomMatch", typed_config |-> typed_config]
SinglePredicateConfig(input, m) ==
    [type |-> "SinglePredicateConfig", input |-> input, matcher |-> m]
AndPredicateConfig(predicates) == [type |-> "AndPredicateConfig", predicates |-> predicates]
OrPredicateConfig(predicates) == [type |-> "OrPredicateConfig", predicates |-> predicates]
NotPredicateConfig(p) == [type |-> "NotPredicateConfig", predicate |-> p]
ActionConfig(action) == [type |-> "ActionConfig", action |-> action]
MatcherOnMatchConfig(m) == [type |-> "MatcherOnMatchConfig", matcher |-> m]
FieldMatcherConfig(p, on_match) == [predicate |-> p, on_match |-> on_match]
MatcherConfig(matchers, on_no_match) ==
    [type |-> "MatcherConfig", matchers |-> matchers, on_no_match |-> on_no_match]

----------------------------------------------------------------------------
(* _registry.py: limits, errors, the registry and the loader *)

MAX_FIELD_MATCHERS == 256
MAX_PREDICATES_PER_COMPOUND == 256
MAX_PATTERN_LENGTH == 8192
MAX_REGEX_PATTERN_LENGTH == 4096

\* The type urls of the model, in the order of sorted()
UrlOrder ==
    <<"a.Input", "b.Input", "test.AnyMatcher", "test.DictInput", "test.LenMatcher",
      "unknown.Input", "unknown.Matcher", "xuma.test.v1.StringInput">>

\* sorted(urls)
Sorted(urls) == SelectSeq(UrlOrder, LAMBDA u : \E i \in DOMAIN urls : urls[i] = u)

\* An error that lists the urls as it is given them
UnknownTypeUrlErrorUnsorted(type_url, registry, available) ==
    [kind |-> "UnknownTypeUrlError", type_url |-> type_url, registry |-> registry,
     available |-> available]

UnknownTypeUrlError(type_url, registry, available) ==
    [kind |-> "UnknownTypeUrlError", type_url |-> type_url, registry |-> registry,
     available |-> Sorted(available)]
InvalidConfigError(source) == [kind |-> "InvalidConfigError", source |-> source]
TooManyFieldMatchersError(count, max) ==
    [kind |-> "TooManyFieldMatchersError", count |-> count, max |-> max]
TooManyPredicatesError(count, max) ==
    [kind |-> "TooManyPredicatesError", count |-> count, max |-> max]
PatternTooLongError(length, max) ==
    [kind |-> "PatternTooLongError", length |-> length, max |-> max]
\* MatcherError raised by Matcher.validate
DepthError == [kind |-> "MatcherError"]

\* What a loading step gives: a value, or the exception it raised, with the
\* calls it made (the log), in order.
Ok(val, log) == [ok |-> TRUE, val |-> val, err |-> NoError, log |-> log]
Raise(err, log) == [ok |-> FALSE, val |-> NoObject, err |-> err, log |-> log]

\* A dict of factories: its keys in insertion order, and the value at each
PyDict(keys, at) == [keys |-> keys, at |-> at]
EmptyPyDict == PyDict(<<>>, <<>>)
\* `key in d`, d[key] = value
HasKey(d, key) == key \in DOMAIN d.at
\* d.setdefault(key, value): the first value stays
SetDefault(d, key, value) ==
    IF key \in DOMAIN d.at THEN d ELSE [keys |-> Append(d.keys, key), at |-> (key :> value) @@ d.at]
SetItem(d, key, value) ==
    PyDict(IF HasKey(d, key) THEN d.keys ELSE Append(d.keys, key), (key :> value) @@ d.at)

\* What a factory call gives: the object, or the exception it raised (its
\* kind and its str()).
Returned(val) == [ok |-> TRUE, val |-> val, raised |-> "", why |-> ""]
Raised(kind, why) == [ok |-> FALSE, val |-> NoObject, raised |-> kind, why |-> why]

\* testing._dict_input_factory
DictInputFactory(cfg) ==
    IF cfg.key = None
    THEN Raised("ValueError", "DictInput requires a 'key' field (string)")
    ELSE Returned(DictInput(cfg.key))

\* lambda cfg: DictInput(cfg["key"]), the input factory of the registry tests
SubscriptInputFactory(cfg) ==
    IF cfg.key = None THEN Raised("KeyError", "'key'") ELSE Returned(DictInput(cfg.key))

\* A matcher factory of the caller's own: it gives a matcher accepting any
\* value and reads nothing of its payload.
AnyMatcherFactory(cfg) == Returned(AnyMatcher)

\* A matcher factory of the caller's own that takes len(cfg.get("key"))
LenMatcherFactory(cfg) ==
    IF cfg.key = None THEN Raised("TypeError", "object of type 'NoneType' has no len()")
    ELSE Returned(AnyMatcher)

\* factory(config), for the factories registered in the model
CallFactory(factory, cfg) ==
    CASE factory = "_dict_input_factory" -> DictInputFactory(cfg)
      [] factory = "subscript_input_factory" -> SubscriptInputFactory(cfg)
      [] factory = "any_matcher_factory" -> AnyMatcherFactory(cfg)
      [] factory = "len_matcher_factory" -> LenMatcherFactory(cfg)

\* `except ValueError`: a clause that lets the other kinds through
CatchesValueError(kind) == kind = "ValueError"

\* `except Exception`: the kinds the factories of the model raise are all
\* subclasses of Exception
Catches(kind) == kind \in {"ValueError", "KeyError", "TypeError"}

\* The exception of a factory, as the loader raises it: wrapped when the
\* except clause catches it, else as it is
FactoryError(r) ==
    IF Catches(r.raised) THEN InvalidConfigError(r.why)
    ELSE [kind |-> r.raised, source |-> r.why]

\* Registry.input_type_urls / matcher_type_urls
SortedUrls(table) == Sorted(table.keys)

\* One limit for every variant
PatternLimitShared(variant) == MAX_PATTERN_LENGTH

\* _check_pattern_length raises PatternTooLongError
PatternLimit(variant) ==
    IF variant = "Regex" THEN MAX_REGEX_PATTERN_LENGTH ELSE MAX_PATTERN_LENGTH

PatternTooLong(variant, value) == Len(value) > PatternLimit(variant)

\* A call the loader made, with the config node it was made for
Call(ev, node) == [ev |-> ev, node |-> node]

\* _compile_built_in
compile_built_in(cfg) ==
    IF PatternTooLong(cfg.variant, cfg.value)
    THEN Raise(PatternTooLongError(Len(cfg.value), PatternLimit(cfg.variant)),
               <<Call("check_pattern_length", cfg)>>)
    ELSE LET log == <<Call("check_pattern_length", cfg), Call("compile", cfg)>>
         IN  CASE cfg.variant = "Exact" -> Ok(ExactMatcher(cfg.value, FALSE), log)
               [] cfg.variant = "Prefix" -> Ok(PrefixMatcher(cfg.value, FALSE), log)
               [] cfg.variant = "Suffix" -> Ok(SuffixMatcher(cfg.value, FALSE), log)
               [] cfg.variant = "Contains" -> Ok(ContainsMatcher(cfg.value, FALSE), log)
               [] cfg.variant = "Regex" ->
                    IF Re2Compiles(cfg.value) THEN Ok(RegexMatcher(cfg.value), log)
                    ELSE Raise(InvalidConfigError("invalid regex pattern"), log)
               [] OTHER ->
                    Raise(InvalidConfigError("unknown built-in match variant"),
                          <<Call("check_pattern_length", cfg)>>)

\* The operators below with the suffix From make the value a method returns
\* from what the calls in its body gave: the first exception raised passes,
\* and the log is what was called until then.

\* try: factory(config) except Exception as e: raise InvalidConfigError(str(e))
TryFactory(r, log) == IF r.ok THEN Ok(r.val, log) ELSE Raise(FactoryError(r), log)

\* SinglePredicate(input=data_input, matcher=matcher)
SinglePredicateFrom(data_input, m) ==
    IF ~data_input.ok THEN data_input
    ELSE IF ~m.ok THEN Raise(m.err, data_input.log \o m.log)
    ELSE Ok(SinglePredicate(data_input.val, m.val), data_input.log \o m.log)

\* A field matcher whose on_match is loaded before its predicate
FieldMatcherOnMatchFirst(p, om) ==
    IF ~om.ok THEN om
    ELSE IF ~p.ok THEN Raise(p.err, om.log \o p.log)
    ELSE Ok(FieldMatcher(p.val, om.val), om.log \o p.log)

\* FieldMatcher(predicate=predicate, on_match=on_match)
FieldMatcherFrom(p, om) ==
    IF ~p.ok THEN p
    ELSE IF ~om.ok THEN Raise(om.err, p.log \o om.log)
    ELSE Ok(FieldMatcher(p.val, om.val), p.log \o om.log)

\* tuple(...) of one item, and of the items of two halves
TupleOf(r) == IF r.ok THEN Ok(<<r.val>>, r.log) ELSE r
TupleFrom(left, right) ==
    IF ~left.ok THEN left
    ELSE IF ~right.ok THEN Raise(right.err, left.log \o right.log)
    ELSE Ok(left.val \o right.val, left.log \o right.log)

\* The items of two halves, the right half first
TupleReversedFrom(left, right) ==
    IF ~left.ok THEN left
    ELSE IF ~right.ok THEN Raise(right.err, left.log \o right.log)
    ELSE Ok(right.val \o left.val, left.log \o right.log)

\* And(predicates=tuple(...)), Or(predicates=tuple(...)), after the width check
AndFrom(enter, r) ==
    IF r.ok THEN Ok(And(r.val), enter \o r.log) ELSE Raise(r.err, enter \o r.log)
OrFrom(enter, r) ==
    IF r.ok THEN Ok(Or(r.val), enter \o r.log) ELSE Raise(r.err, enter \o r.log)

\* Not(predicate=self._load_predicate(inner))
NotFrom(r) == IF r.ok THEN Ok(Not(r.val), r.log) ELSE r

\* NestedMatcher(matcher=nested)
NestedMatcherFrom(r) == IF r.ok THEN Ok(NestedMatcher(r.val), r.log) ELSE r

\* Registry._load_value_match
load_value_match(reg, cfg) ==
    IF cfg.type = "BuiltInMatch" THEN compile_built_in(cfg)
    ELSE IF ~HasKey(reg.matcher_factories, cfg.typed_config.type_url)
    THEN Raise(UnknownTypeUrlError(cfg.typed_config.type_url, "matcher",
                                   reg.matcher_factories.keys), <<>>)
    ELSE TryFactory(CallFactory(reg.matcher_factories.at[cfg.typed_config.type_url],
                                cfg.typed_config.config),
                    <<Call("matcher_factory", cfg.typed_config)>>)

\* Registry._load_single
load_single(reg, cfg) ==
    IF ~HasKey(reg.input_factories, cfg.input.type_url)
    THEN Raise(UnknownTypeUrlError(cfg.input.type_url, "input",
                                   reg.input_factories.keys), <<>>)
    ELSE SinglePredicateFrom(
             TryFactory(CallFactory(reg.input_factories.at[cfg.input.type_url],
                                    cfg.input.config),
                        <<Call("input_factory", cfg.input)>>),
             load_value_match(reg, cfg.matcher))

RECURSIVE load_matcher(_, _)
RECURSIVE load_field_matchers(_, _, _, _)
RECURSIVE load_field_matchers_reversed(_, _, _, _)
RECURSIVE load_field_matcher(_, _)
RECURSIVE load_predicate(_, _)
RECURSIVE load_predicates(_, _, _, _)
RECURSIVE load_on_match(_, _)

\* A width check that lets one field matcher too many through
TooManyFieldMatchersLax(matchers) == Len(matchers) > MAX_FIELD_MATCHERS + 1

\* The width checks of the loader
TooManyFieldMatchers(matchers) == Len(matchers) > MAX_FIELD_MATCHERS
TooManyPredicates(children) == Len(children) > MAX_PREDICATES_PER_COMPOUND

\* tuple(self._load_predicate(p) for p in children), for the children lo..hi
\* in order: the left half, then the right half unless the left one raised.
load_predicates(reg, children, lo, hi) ==
    IF lo > hi THEN Ok(<<>>, <<>>)
    ELSE IF lo = hi THEN TupleOf(load_predicate(reg, children[lo]))
    ELSE TupleFrom(load_predicates(reg, children, lo, (lo + hi) \div 2),
                   load_predicates(reg, children, (lo + hi) \div 2 + 1, hi))

\* Registry._load_predicate
load_predicate(reg, cfg) ==
    CASE cfg.type = "SinglePredicateConfig" -> load_single(reg, cfg)
      [] cfg.type \in {"AndPredicateConfig", "OrPredicateConfig"} ->
            IF TooManyPredicates(cfg.predicates)
            THEN Raise(TooManyPredicatesError(Len(cfg.predicates),
                                              MAX_PREDICATES_PER_COMPOUND),
                       <<Call("load_compound", cfg)>>)
            ELSE IF cfg.type = "AndPredicateConfig"
            THEN AndFrom(<<Call("load_compound", cfg)>>,
                         load_predicates(reg, cfg.predicates, 1, Len(cfg.predicates)))
            ELSE OrFrom(<<Call("load_compound", cfg)>>,
                        load_predicates(reg, cfg.predicates, 1, Len(cfg.predicates)))
      [] cfg.type = "NotPredicateConfig" ->
            NotFrom(load_predicate(reg, cfg.predicate))
      [] OTHER -> Raise(InvalidConfigError("unknown predicate config type"), <<>>)

\* Registry._load_on_match
load_on_match(reg, cfg) ==
    CASE cfg.type = "ActionConfig" -> Ok(Action(cfg.action), <<>>)
      [] cfg.type = "MatcherOnMatchConfig" ->
            NestedMatcherFrom(load_matcher(reg, cfg.matcher))
      [] OTHER -> Raise(InvalidConfigError("unknown on_match config type"), <<>>)

\* Registry._load_field_matcher
load_field_matcher(reg, cfg) ==
    FieldMatcherFrom(load_predicate(reg, cfg.predicate),
                     load_on_match(reg, cfg.on_match))

\* The field matchers lo..hi put into the tuple last first
load_field_matchers_reversed(reg, matchers, lo, hi) ==
    IF lo > hi THEN Ok(<<>>, <<>>)
    ELSE IF lo = hi THEN TupleOf(load_field_matcher(reg, matchers[lo]))
    ELSE TupleReversedFrom(
             load_field_matchers_reversed(reg, matchers, lo, (lo + hi) \div 2),
             load_field_matchers_reversed(reg, matchers, (lo + hi) \div 2 + 1, hi))

\* tuple(self._load_field_matcher(fm) for fm in config.matchers), for the
\* field matchers lo..hi in order: the left half, then the right half unless
\* the left one raised.
load_field_matchers(reg, matchers, lo, hi) ==
    IF lo > hi THEN Ok(<<>>, <<>>)
    ELSE IF lo = hi THEN TupleOf(load_field_matcher(reg, matchers[lo]))
    ELSE TupleFrom(load_field_matchers(reg, matchers, lo, (lo + hi) \div 2),
                   load_field_matchers(reg, matchers, (lo + hi) \div 2 + 1, hi))

\* Matcher(matcher_list=..., on_no_match=...) of what the two loads gave,
\* after the calls of enter; its __post_init__ validates the depth
MatcherFrom(enter, fms, onm) ==
    IF ~fms.ok THEN Raise(fms.err, enter \o fms.log)
    ELSE IF ~onm.ok THEN Raise(onm.err, enter \o fms.log \o onm.log)
    ELSE IF ValidateRaises(MatcherFields(fms.val, onm.val))
    THEN Raise(DepthError, enter \o fms.log \o onm.log)
    ELSE Ok(MatcherFields(fms.val, onm.val), enter \o fms.log \o onm.log)

\* A load_matcher that counts the field matchers once they are loaded
LateWidthFrom(cfg, r) ==
    IF r.ok /\ TooManyFieldMatchers(cfg.matchers)
    THEN Raise(TooManyFieldMatchersError(Len(cfg.matchers), MAX_FIELD_MATCHERS), r.log)
    ELSE r
load_matcher_late(reg, cfg) ==
    LateWidthFrom(cfg,
                  MatcherFrom(<<Call("load_matcher", cfg)>>,
                              load_field_matchers(reg, cfg.matchers, 1, Len(cfg.matchers)),
                              IF cfg.on_no_match # NoOnMatch
                              THEN load_on_match(reg, cfg.on_no_match)
                              ELSE Ok(NoOnMatch, <<>>)))

\* Registry.load_matcher
load_matcher(reg, cfg) ==
    IF TooManyFieldMatchers(cfg.matchers)
    THEN Raise(TooManyFieldMatchersError(Len(cfg.matchers), MAX_FIELD_MATCHERS),
               <<Call("load_matcher", cfg)>>)
    ELSE MatcherFrom(<<Call("load_matcher", cfg)>>,
                     load_field_matchers(reg, cfg.matchers, 1, Len(cfg.matchers)),
                     IF cfg.on_no_match # NoOnMatch
                     THEN load_on_match(reg, cfg.on_no_match)
                     ELSE Ok(NoOnMatch, <<>>))

\* RegistryBuilder with testing.register and a matcher factory, built
TestRegistry ==
    [input_factories |->
         SetItem(EmptyPyDict, "xuma.test.v1.StringInput", "_dict_input_factory"),
     matcher_factories |-> SetItem(EmptyPyDict, "test.AnyMatcher", "any_matcher_factory")]

----------------------------------------------------------------------------
(* The configs load_matcher is called with *)

\* How far past a limit the lists and patterns of the model go
MaxOver == 1

\* Lengths around a limit, and a few short ones
Around(limit) == {0, 1, 2} \cup {limit - 1 + k : k \in 0..(MaxOver + 1)}

GoodInput == TypedConfig("xuma.test.v1.StringInput", "x")
UnknownInput == TypedConfig("unknown.Input", None)
ExactCfg == SinglePredicateConfig(GoodInput, BuiltInMatch("Exact", <<1>>))
UnknownCfg == SinglePredicateConfig(UnknownInput, BuiltInMatch("Exact", <<1>>))
FmCfg == FieldMatcherConfig(ExactCfg, ActionConfig("a1"))
BadFmCfg == FieldMatcherConfig(UnknownCfg, ActionConfig("a1"))

\* A matcher config at the top, or nested in another by on_match or by
\* on_no_match, the latter also behind a field matcher that does not load
NestedAt(place, wide) ==
    CASE place = "top" -> wide
      [] place = "on_match" ->
            MatcherConfig(<<FieldMatcherConfig(ExactCfg, MatcherOnMatchConfig(wide))>>,
                          NoOnMatch)
      [] place = "on_no_match" ->
            MatcherConfig(<<FmCfg>>, MatcherOnMatchConfig(wide))
      [] place = "after unknown url" ->
            MatcherConfig(<<BadFmCfg, FieldMatcherConfig(ExactCfg, MatcherOnMatchConfig(wide))>>,
                          NoOnMatch)

WideConfigs ==
    {NestedAt(place, MatcherConfig(Repeat(fm, n), NoOnMatch)) :
        place \in {"top", "on_match", "on_no_match", "after unknown url"},
        fm \in {FmCfg, BadFmCfg},
        n \in Around(MAX_FIELD_MATCHERS)}

\* A compound predicate of n children, at the top of a predicate or nested
CompoundAt(place, compound) ==
    CASE place = "top" -> compound
      [] place = "not" -> NotPredicateConfig(compound)
      [] place = "and" -> AndPredicateConfig(<<ExactCfg, compound>>)
      [] place = "after unknown url" -> OrPredicateConfig(<<UnknownCfg, compound>>)

CompoundConfigs ==
    {MatcherConfig(
        <<FieldMatcherConfig(
            CompoundAt(place, [type |-> kind, predicates |-> Repeat(child, n)]),
            ActionConfig("a1"))>>,
        ActionConfig("d")) :
        place \in {"top", "not", "and", "after unknown url"},
        kind \in {"AndPredicateConfig", "OrPredicateConfig"},
        child \in {ExactCfg, UnknownCfg},
        n \in Around(MAX_PREDICATES_PER_COMPOUND)}

Variants == {"Exact", "Prefix", "Suffix", "Contains", "Regex"}

\* A built-in value match on a pattern of n characters "a", or of n "("
PatternConfigs ==
    {MatcherConfig(
        <<FieldMatcherConfig(
            SinglePredicateConfig(GoodInput, BuiltInMatch(variant, Repeat(ch, n))),
            ActionConfig("a1"))>>,
        NoOnMatch) :
        variant \in Variants,
        ch \in {1, 4},
        n \in Around(MAX_REGEX_PATTERN_LENGTH) \cup Around(MAX_PATTERN_LENGTH)}

OtherConfigs ==
    {MatcherConfig(
        <<FieldMatcherConfig(SinglePredicateConfig(TypedConfig(url, key), vm), om)>>,
        NoOnMatch) :
        url \in {"xuma.test.v1.StringInput", "test.AnyMatcher"},
        key \in {"y", None},
        vm \in {BuiltInMatch("Glob", <<1>>),
                CustomMatch(TypedConfig("test.AnyMatcher", None)),
                CustomMatch(TypedConfig("xuma.test.v1.StringInput", None))},
        om \in {ActionConfig("a1"), ActionConfig(None)}}

ConfigPool == WideConfigs \cup CompoundConfigs \cup PatternConfigs \cup OtherConfigs

\* registry.load_matcher(cfg) for a config of the pool; r is what the call
\* gives.
LoadFrom(pool) ==
    /\ pc = "init"
    /\ \E cfg \in pool :
          \E r \in {load_matcher(TestRegistry, cfg)} :
              /\ config' = cfg
              /\ trace' = r.log
              /\ error' = r.err
              /\ IF r.ok
                 THEN matcher' = r.val /\ pc' = "loaded"
                 ELSE pc' = "load raised" /\ UNCHANGED matcher
    /\ UNCHANGED <<predicate, ctx, result, verdict, args, nests, document, edit>>
    /\ UNCHANGED regVars

Load == LoadFrom(ConfigPool)

NextLoad == Load

SpecLoad == Init /\ [][NextLoad]_vars

----------------------------------------------------------------------------
(* Width and pattern limits at load *)

LoadDone == pc \in {"loaded", "load raised"}
LastCall == trace[Len(trace)]

\* Every matcher config the loader entered with more than 256 field matchers
\* ended the load at once with TooManyFieldMatchersError(count, 256), and
\* that error is raised for no other reason.
FieldMatcherWidthEnforced ==
    /\ \A k \in DOMAIN trace :
          trace[k].ev = "load_matcher" =>
              LET count == Len(trace[k].node.matchers)
              IN  count > 256 =>
                      /\ pc = "load raised"
                      /\ error = TooManyFieldMatchersError(count, 256)
                      /\ k = Len(trace)
    /\ error.kind = "TooManyFieldMatchersError" =>
          /\ LastCall.ev = "load_matcher"
          /\ error.count = Len(LastCall.node.matchers)
          /\ error.count > 256
          /\ error.max = 256

\* The same for the children of an And or Or config and TooManyPredicatesError
PredicateWidthEnforced ==
    /\ \A k \in DOMAIN trace :
          trace[k].ev = "load_compound" =>
              LET count == Len(trace[k].node.predicates)
              IN  count > 256 =>
                      /\ pc = "load raised"
                      /\ error = TooManyPredicatesError(count, 256)
                      /\ k = Len(trace)
    /\ error.kind = "TooManyPredicatesError" =>
          /\ LastCall.ev = "load_compound"
          /\ error.count = Len(LastCall.node.predicates)
          /\ error.count > 256
          /\ error.max = 256

\* A list longer than 256 anywhere in a config
RECURSIVE Overwide(_)
Overwide(node) ==
    CASE node.type = "MatcherConfig" ->
            \/ Len(node.matchers) > 256
            \/ \E i \in DOMAIN node.matchers :
                  \/ Overwide(node.matchers[i].predicate)
                  \/ Overwide(node.matchers[i].on_match)
            \/ Overwide(node.on_no_match)
      [] node.type = "MatcherOnMatchConfig" -> Overwide(node.matcher)
      [] node.type \in {"AndPredicateConfig", "OrPredicateConfig"} ->
            \/ Len(node.predicates) > 256
            \/ \E i \in DOMAIN node.predicates : Overwide(node.predicates[i])
      [] node.type = "NotPredicateConfig" -> Overwide(node.predicate)
      [] OTHER -> FALSE

\* Configs that are sound but for the length of one list
WideOnly(n) ==
    {NestedAt(place, MatcherConfig(Repeat(FmCfg, n), NoOnMatch)) :
        place \in {"top", "on_match", "on_no_match"}}
CompoundOnly(n) ==
    {MatcherConfig(
        <<FieldMatcherConfig(
            CompoundAt(place, [type |-> kind, predicates |-> Repeat(ExactCfg, n)]),
            ActionConfig("a1"))>>,
        ActionConfig("d")) :
        place \in {"top", "not", "and"},
        kind \in {"AndPredicateConfig", "OrPredicateConfig"}}

\* C8: at load, a matcher config with more than 256 field matchers is
\* rejected with TooManyFieldMatchersError(count, 256) and an And or Or config
\* with more than 256 children with TooManyPredicatesError(count, 256), at
\* the top level or nested; no config holding such a list loads; a list of
\* exactly 256 is accepted.
C8_WidthLimitsAtLoad ==
    LoadDone =>
        /\ FieldMatcherWidthEnforced
        /\ PredicateWidthEnforced
        /\ Overwide(config) => pc = "load raised"
        /\ config \in WideOnly(256) \cup CompoundOnly(256) => pc = "loaded"
        /\ config \in WideOnly(257) =>
              error = TooManyFieldMatchersError(257, 256)
        /\ config \in CompoundOnly(257) =>
              error = TooManyPredicatesError(257, 256)

\* 257 field matchers in the matcher nested under on_no_match are rejected
C8_Witness ==
    /\ pc = "load raised"
    /\ config = NestedAt("on_no_match", MatcherConfig(Repeat(FmCfg, 257), NoOnMatch))
    /\ error = TooManyFieldMatchersError(257, 256)
    /\ LastCall = Call("load_matcher", config.on_no_match.matcher)

\* C9: a built-in pattern is rejected with PatternTooLongError(length, limit)
\* exactly when it is longer than 4096 (Regex) or 8192 (the other variants);
\* a pattern of exactly the limit is accepted; the length is checked before
\* the pattern is compiled.
C9_PatternLimitsAtLoad ==
    LoadDone =>
        /\ \A k \in DOMAIN trace :
              trace[k].ev = "check_pattern_length" =>
                  LET match == trace[k].node
                      length == Len(match.value)
                      limit == IF match.variant = "Regex" THEN 4096 ELSE 8192
                  IN  IF length > limit
                      THEN /\ pc = "load raised"
                           /\ error = PatternTooLongError(length, limit)
                           /\ k = Len(trace)
                      ELSE match.variant \in Variants =>
                              /\ k < Len(trace)
                              /\ trace[k + 1] = Call("compile", match)
        /\ \A k \in DOMAIN trace :
              trace[k].ev = "compile" =>
                  /\ k > 1
                  /\ trace[k - 1] = Call("check_pattern_length", trace[k].node)
        /\ error.kind = "PatternTooLongError" =>
              /\ LastCall.ev = "check_pattern_length"
              /\ error.length = Len(LastCall.node.value)
              /\ error.length > error.max
        /\ \A variant \in Variants :
              LET limit == IF variant = "Regex" THEN 4096 ELSE 8192
                  Pattern(n) ==
                      MatcherConfig(
                          <<FieldMatcherConfig(
                              SinglePredicateConfig(
                                  GoodInput, BuiltInMatch(variant, Repeat(1, n))),
                              ActionConfig("a1"))>>,
                          NoOnMatch)
              IN  /\ config = Pattern(limit) => pc = "loaded"
                  /\ config = Pattern(limit + 1) =>
                        error = PatternTooLongError(limit + 1, limit)

\* A Regex pattern of 4097 characters that re2 would not compile is rejected
\* for its length, and never compiled.
C9_Witness ==
    /\ pc = "load raised"
    /\ config.matchers[1].predicate.matcher = BuiltInMatch("Regex", Repeat(4, 4097))
    /\ error = PatternTooLongError(4097, 4096)
    /\ \A k \in DOMAIN trace : trace[k].ev # "compile"

----------------------------------------------------------------------------
(* Deep matchers: constructions at and around MAX_DEPTH *)

\* How many times a matcher is nested into a new one
MaxNests == 3

\* Depths up to one more than MAX_DEPTH, and two small ones
Depths == {3, 4} \cup ((MAX_DEPTH - 2)..(MAX_DEPTH + 1))

\* Not(Not(... p)), k times
RECURSIVE NotChain(_, _)
NotChain(p, k) ==
    IF k = 0 THEN p ELSE [type |-> "Not", predicate |-> NotChain(p, k - 1)]

\* Matcher((FieldMatcher(Not(...Not(PX)), Action("a1")),), on_no_match), of
\* depth d
NewDeepMatcher ==
    /\ pc = "init"
    /\ \E d \in Depths, onm \in {NoOnMatch, Action("d")} :
          Construct(<<FieldMatcher(NotChain(PX, d - 2), Action("a1"))>>, onm)
    /\ UNCHANGED <<predicate, ctx, result, verdict, trace, config, nests, document, edit>>
    /\ UNCHANGED regVars

\* Matcher((FieldMatcher(PX, NestedMatcher(matcher)),)), the matcher at hand
\* nested as an on_match
Nest ==
    /\ matcher # NoObject
    /\ pc \in {"constructed", "raised"}
    /\ nests < MaxNests
    /\ Construct(<<FieldMatcher(PX, NestedMatcher(matcher))>>, NoOnMatch)
    /\ nests' = nests + 1
    /\ UNCHANGED <<predicate, ctx, result, verdict, trace, config, document, edit>>
    /\ UNCHANGED regVars

\* Matcher((), on_no_match=NestedMatcher(matcher)), the matcher at hand nested
\* as the fallback
NestAsFallback ==
    /\ matcher # NoObject
    /\ pc \in {"constructed", "raised"}
    /\ nests < MaxNests
    /\ Construct(<<>>, NestedMatcher(matcher))
    /\ nests' = nests + 1
    /\ UNCHANGED <<predicate, ctx, result, verdict, trace, config, document, edit>>
    /\ UNCHANGED regVars

\* Not configs around a predicate config, k times
RECURSIVE NotChainCfg(_, _)
NotChainCfg(p, k) ==
    IF k = 0 THEN p
    ELSE [type |-> "NotPredicateConfig", predicate |-> NotChainCfg(p, k - 1)]

\* A matcher config of depth d: a deep predicate in a matcher config, at
\* the top or nested by on_match or by on_no_match
DeepConfig(place, d) ==
    LET deep(e) ==
            MatcherConfig(
                <<FieldMatcherConfig(NotChainCfg(ExactCfg, e - 2), ActionConfig("a1"))>>,
                NoOnMatch)
    IN  IF place = "top" THEN deep(d) ELSE NestedAt(place, deep(d - 1))

DeepConfigs ==
    {DeepConfig(place, d) :
        place \in {"top", "on_match", "on_no_match"},
        d \in Depths}

LoadDeep == LoadFrom(DeepConfigs)

NextDepth == NewDeepMatcher \/ Nest \/ NestAsFallback \/ LoadDeep

SpecDepth == Init /\ [][NextDepth]_vars

\* The matchers inside a matcher, itself included
RECURSIVE SubMatchers(_)
SubMatchers(m) ==
    {m}
    \cup UNION {SubMatchers(m.matcher_list[i].on_match.matcher) :
                    i \in {j \in DOMAIN m.matcher_list :
                              m.matcher_list[j].on_match.type = "NestedMatcher"}}
    \cup (IF m.on_no_match.type = "NestedMatcher"
          THEN SubMatchers(m.on_no_match.matcher) ELSE {})

\* The depth a config asks for
RECURSIVE ConfigDepth(_)
ConfigDepth(node) ==
    CASE node.type = "MatcherConfig" ->
            1 + MaxOf({ConfigDepth(node.matchers[i].predicate) : i \in DOMAIN node.matchers}
                      \cup {ConfigDepth(node.matchers[i].on_match) : i \in DOMAIN node.matchers}
                      \cup {ConfigDepth(node.on_no_match)}, 0)
      [] node.type = "MatcherOnMatchConfig" -> ConfigDepth(node.matcher)
      [] node.type = "SinglePredicateConfig" -> 1
      [] node.type \in {"AndPredicateConfig", "OrPredicateConfig"} ->
            1 + MaxOf({ConfigDepth(node.predicates[i]) : i \in DOMAIN node.predicates}, 0)
      [] node.type = "NotPredicateConfig" -> 1 + ConfigDepth(node.predicate)
      [] OTHER -> 0

\* C7: every matcher that exists, built directly or loaded, and every
\* matcher nested in it, has depth at most 32; a construction of depth above
\* 32 raises MatcherError and gives no matcher, one of depth 32 or less
\* succeeds; a config of depth above 32 does not load.
C7_DepthBound ==
    /\ matcher # NoObject =>
          \A sub \in SubMatchers(matcher) : MatcherDepth(sub) <= 32
    /\ pc \in {"constructed", "raised"} =>
          IF MatcherDepth(args) > 32
          THEN pc = "raised" /\ error.kind = "MatcherError" /\ matcher # args
          ELSE pc = "constructed" /\ error = NoError /\ matcher = args
    /\ LoadDone =>
          IF ConfigDepth(config) > 32
          THEN pc = "load raised" /\ error.kind = "MatcherError" /\ matcher = NoObject
          ELSE pc = "loaded" /\ MatcherDepth(matcher) = ConfigDepth(config)

\* A matcher of depth exactly 32 was constructed, and nesting it into a new
\* matcher raised: the matcher at hand is still the one of depth 32.
C7_Witness ==
    /\ pc = "raised"
    /\ MatcherDepth(args) = 33
    /\ args.matcher_list[1].on_match = NestedMatcher(matcher)
    /\ MatcherDepth(matcher) = 32

----------------------------------------------------------------------------
(* _config.py: documents and the parser *)

\* A document is what json.loads gives: a dict, list, str, int or None, each
\* a record [type, val] like a MatchingData value.  The val of a dict is a
\* function from its keys; the val of a list is the sequence of its items.
\* A str that is matched or is a pattern is a StrData of characters; a str
\* that names something (a discriminator, a type url, a key, an action) is
\* a NameData holding the name.
NameData(name) == [type |-> "str", name |-> name]
IsName(data) == data.type = "str" /\ "name" \in DOMAIN data
DictData(f) == [type |-> "dict", val |-> f]
ListData(items) == [type |-> "list", val |-> items]
EmptyDict == DictData(<<>>)

\* isinstance(data, dict), `key in data`, data[key], data.get(key, default)
IsInstanceDict(data) == data.type = "dict"
Has(data, key) == key \in DOMAIN data.val
Get(data, key, default) == IF Has(data, key) THEN data.val[key] ELSE default

ConfigParseError(msg) == [kind |-> "ConfigParseError", msg |-> msg]
\* what `for p in children` raises when children cannot be iterated
TypeError == [kind |-> "TypeError", msg |-> "object is not iterable"]

\* _STRING_MATCH_VARIANTS
STRING_MATCH_VARIANTS == {"Exact", "Prefix", "Suffix", "Contains", "Regex"}

\* The orders in which a frozenset of the five names can be iterated: the
\* order follows the hashes of the names, which change from one interpreter
\* process to the next.
VariantOrders ==
    {o \in [1..Cardinality(STRING_MATCH_VARIANTS) -> STRING_MATCH_VARIANTS] :
        \A i, j \in DOMAIN o : o[i] = o[j] => i = j}

\* The keys of a dict as a sequence
RECURSIVE KeysOf(_)
KeysOf(keys) ==
    IF keys = {} THEN <<>>
    ELSE LET k == CHOOSE k \in keys : TRUE
         IN  <<NameData(k)>> \o KeysOf(keys \ {k})

\* What `for p in children` goes through: the items of a list, the
\* characters of a str, the keys of a dict; anything else is not iterable.
Iterable(children) == children.type \in {"list", "str", "dict"}
ItemsOf(children) ==
    CASE children.type = "list" -> children.val
      [] children.type = "str" ->
            [i \in 1..Len(children.val) |-> StrData(<<children.val[i]>>)]
      [] children.type = "dict" -> KeysOf(DOMAIN children.val)

\* The payload of a typed config as the factories of the model read it:
\* config.get("key") when it is a str, else None.
PayloadKey(cfg) ==
    IF Has(cfg, "key") /\ IsName(cfg.val["key"]) THEN cfg.val["key"].name
    ELSE None

\* The action value of an ActionConfig: the str, or None for null.
ActionValue(data) == IF data.type = "NoneType" THEN None ELSE data.name

\* _parse_typed_config
parse_typed_config(data) ==
    IF ~IsInstanceDict(data)
    THEN Raise(ConfigParseError("typed_config must be a dict"), <<>>)
    ELSE IF ~Has(data, "type_url")
    THEN Raise(ConfigParseError("typed_config missing required field 'type_url'"), <<>>)
    ELSE IF data.val["type_url"].type # "str"
    THEN Raise(ConfigParseError("type_url must be a string"), <<>>)
    ELSE IF ~IsInstanceDict(Get(data, "config", EmptyDict))
    THEN Raise(ConfigParseError("config must be a dict"), <<>>)
    ELSE Ok(TypedConfig(data.val["type_url"].name,
                        PayloadKey(Get(data, "config", EmptyDict))), <<>>)

\* _parse_value_match, the frozenset iterated in the given order: the first
\* variant of the order that is a key of the map decides.
parse_value_match(data, order) ==
    IF ~IsInstanceDict(data)
    THEN Raise(ConfigParseError("value_match must be a dict"), <<>>)
    ELSE LET found == {i \in DOMAIN order : Has(data, order[i])}
         IN  IF found = {}
             THEN Raise(ConfigParseError("value_match must contain one of the variants"),
                        <<>>)
             ELSE LET variant == order[CHOOSE i \in found : \A j \in found : i <= j]
                  IN  IF data.val[variant].type # "str"
                      THEN Raise(ConfigParseError("value_match value must be a string"),
                                 <<>>)
                      ELSE Ok(BuiltInMatch(variant, data.val[variant].val), <<>>)

\* A oneof that is not enforced: value_match wins when both are set
parse_single_predicate_lax(data, order) ==
    IF ~Has(data, "input")
    THEN Raise(ConfigParseError("single predicate missing required field 'input'"), <<>>)
    ELSE LET input_cfg == parse_typed_config(data.val["input"])
         IN  IF ~input_cfg.ok THEN input_cfg
             ELSE IF ~Has(data, "value_match") /\ ~Has(data, "custom_match")
             THEN Raise(ConfigParseError("one of 'value_match' or 'custom_match' is required"), <<>>)
             ELSE LET m == IF Has(data, "value_match")
                           THEN parse_value_match(data.val["value_match"], order)
                           ELSE parse_typed_config(data.val["custom_match"])
                  IN  IF ~m.ok THEN m
                      ELSE IF Has(data, "value_match")
                      THEN Ok(SinglePredicateConfig(input_cfg.val, m.val), <<>>)
                      ELSE Ok(SinglePredicateConfig(input_cfg.val, CustomMatch(m.val)),
                              <<>>)

\* _parse_single_predicate
parse_single_predicate(data, order) ==
    IF ~Has(data, "input")
    THEN Raise(ConfigParseError("single predicate missing required field 'input'"), <<>>)
    ELSE LET input_cfg == parse_typed_config(data.val["input"])
         IN  IF ~input_cfg.ok THEN input_cfg
             ELSE IF Has(data, "value_match") /\ Has(data, "custom_match")
             THEN Raise(ConfigParseError("exactly one of 'value_match' or 'custom_match' must be set, got both"), <<>>)
             ELSE IF ~Has(data, "value_match") /\ ~Has(data, "custom_match")
             THEN Raise(ConfigParseError("one of 'value_match' or 'custom_match' is required"), <<>>)
             ELSE LET m == IF Has(data, "value_match")
                           THEN parse_value_match(data.val["value_match"], order)
                           ELSE parse_typed_config(data.val["custom_match"])
                  IN  IF ~m.ok THEN m
                      ELSE IF Has(data, "value_match")
                      THEN Ok(SinglePredicateConfig(input_cfg.val, m.val), <<>>)
                      ELSE Ok(SinglePredicateConfig(input_cfg.val, CustomMatch(m.val)),
                              <<>>)

RECURSIVE parse_matcher_config(_, _)
RECURSIVE parse_field_matchers(_, _, _, _)
RECURSIVE parse_field_matcher(_, _)
RECURSIVE parse_predicate(_, _)
RECURSIVE parse_predicates(_, _, _, _)
RECURSIVE parse_on_match(_, _)

\* tuple(_parse_predicate(p) for p in children), for the items lo..hi in
\* order: the left half, then the right half unless the left one raised.
parse_predicates(items, lo, hi, order) ==
    IF lo > hi THEN Ok(<<>>, <<>>)
    ELSE IF lo = hi
    THEN LET r == parse_predicate(items[lo], order)
         IN  IF r.ok THEN Ok(<<r.val>>, <<>>) ELSE r
    ELSE LET mid == (lo + hi) \div 2
             left == parse_predicates(items, lo, mid, order)
         IN  IF ~left.ok THEN left
             ELSE LET right == parse_predicates(items, mid + 1, hi, order)
                  IN  IF ~right.ok THEN right
                      ELSE Ok(left.val \o right.val, <<>>)

\* The predicates of an and/or predicate: data.get("predicates", []),
\* iterated whatever it is.
parse_children(data, order) ==
    LET children == Get(data, "predicates", ListData(<<>>))
    IN  IF ~Iterable(children) THEN Raise(TypeError, <<>>)
        ELSE parse_predicates(ItemsOf(children), 1, Len(ItemsOf(children)), order)

\* _parse_predicate
parse_predicate(data, order) ==
    IF ~IsInstanceDict(data)
    THEN Raise(ConfigParseError("predicate must be a dict"), <<>>)
    ELSE IF Get(data, "type", NoneData) = NoneData
    THEN Raise(ConfigParseError("predicate missing required field 'type'"), <<>>)
    ELSE CASE data.val["type"] = NameData("single") -> parse_single_predicate(data, order)
           [] data.val["type"] = NameData("and") ->
                LET r == parse_children(data, order)
                IN  IF r.ok THEN Ok(AndPredicateConfig(r.val), <<>>) ELSE r
           [] data.val["type"] = NameData("or") ->
                LET r == parse_children(data, order)
                IN  IF r.ok THEN Ok(OrPredicateConfig(r.val), <<>>) ELSE r
           [] data.val["type"] = NameData("not") ->
                IF ~Has(data, "predicate")
                THEN Raise(ConfigParseError("not predicate missing required field 'predicate'"), <<>>)
                ELSE LET r == parse_predicate(data.val["predicate"], order)
                     IN  IF r.ok THEN Ok(NotPredicateConfig(r.val), <<>>) ELSE r
           [] OTHER -> Raise(ConfigParseError("unknown predicate type"), <<>>)

\* _parse_on_match
parse_on_match(data, order) ==
    IF ~IsInstanceDict(data)
    THEN Raise(ConfigParseError("on_match must be a dict"), <<>>)
    ELSE IF Get(data, "type", NoneData) = NoneData
    THEN Raise(ConfigParseError("on_match missing required field 'type'"), <<>>)
    ELSE CASE data.val["type"] = NameData("action") ->
                IF ~Has(data, "action")
                THEN Raise(ConfigParseError("action on_match missing required field 'action'"), <<>>)
                ELSE Ok(ActionConfig(ActionValue(data.val["action"])), <<>>)
           [] data.val["type"] = NameData("matcher") ->
                IF ~Has(data, "matcher")
                THEN Raise(ConfigParseError("matcher on_match missing required field 'matcher'"), <<>>)
                ELSE LET r == parse_matcher_config(data.val["matcher"], order)
                     IN  IF r.ok THEN Ok(MatcherOnMatchConfig(r.val), <<>>) ELSE r
           [] OTHER -> Raise(ConfigParseError("unknown on_match type"), <<>>)

\* _parse_field_matcher
parse_field_matcher(data, order) ==
    IF ~IsInstanceDict(data)
    THEN Raise(ConfigParseError("field_matcher must be a dict"), <<>>)
    ELSE IF ~Has(data, "predicate")
    THEN Raise(ConfigParseError("field_matcher missing required field 'predicate'"), <<>>)
    ELSE IF ~Has(data, "on_match")
    THEN Raise(ConfigParseError("field_matcher missing required field 'on_match'"), <<>>)
    ELSE LET p == parse_predicate(data.val["predicate"], order)
         IN  IF ~p.ok THEN p
             ELSE LET om == parse_on_match(data.val["on_match"], order)
                  IN  IF ~om.ok THEN om
                      ELSE Ok(FieldMatcherConfig(p.val, om.val), <<>>)

\* tuple(_parse_field_matcher(fm) for fm in raw_matchers), for the items
\* lo..hi in order: the left half, then the right half unless the left one
\* raised.
parse_field_matchers(items, lo, hi, order) ==
    IF lo > hi THEN Ok(<<>>, <<>>)
    ELSE IF lo = hi
    THEN LET r == parse_field_matcher(items[lo], order)
         IN  IF r.ok THEN Ok(<<r.val>>, <<>>) ELSE r
    ELSE LET mid == (lo + hi) \div 2
             left == parse_field_matchers(items, lo, mid, order)
         IN  IF ~left.ok THEN left
             ELSE LET right == parse_field_matchers(items, mid + 1, hi, order)
                  IN  IF ~right.ok THEN right
                      ELSE Ok(left.val \o right.val, <<>>)

\* parse_matcher_config
parse_matcher_config(data, order) ==
    IF ~IsInstanceDict(data)
    THEN Raise(ConfigParseError("expected dict"), <<>>)
    ELSE IF Get(data, "matchers", NoneData) = NoneData
    THEN Raise(ConfigParseError("missing required field 'matchers'"), <<>>)
    ELSE IF data.val["matchers"].type # "list"
    THEN Raise(ConfigParseError("'matchers' must be a list"), <<>>)
    ELSE LET fms == parse_field_matchers(data.val["matchers"].val, 1,
                                         Len(data.val["matchers"].val), order)
         IN  IF ~fms.ok THEN fms
             ELSE IF ~Has(data, "on_no_match")
             THEN Ok(MatcherConfig(fms.val, NoOnMatch), <<>>)
             ELSE LET onm == parse_on_match(data.val["on_no_match"], order)
                  IN  IF ~onm.ok THEN onm
                      ELSE Ok(MatcherConfig(fms.val, onm.val), <<>>)

----------------------------------------------------------------------------
(* The documents of the model: valid documents, each with one edit *)

\* A step from a node of a document to a child: by key or by list index.
Key(k) == [key |-> k]
Item(i) == [idx |-> i]
Child(data, step) ==
    IF "key" \in DOMAIN step THEN data.val[step.key] ELSE data.val[step.idx]

\* The node of a document at a path, and the document with that node replaced
RECURSIVE At(_, _)
At(data, path) == IF path = <<>> THEN data ELSE At(Child(data, Head(path)), Tail(path))

RECURSIVE Put(_, _, _)
Put(data, path, new) ==
    IF path = <<>> THEN new
    ELSE IF "key" \in DOMAIN Head(path)
    THEN [data EXCEPT !.val[Head(path).key] = Put(@, Tail(path), new)]
    ELSE [data EXCEPT !.val[Head(path).idx] = Put(@, Tail(path), new)]

\* The dict at a path without one of its keys, and with one more key
Without(data, path, k) ==
    Put(data, path,
        DictData([x \in DOMAIN At(data, path).val \ {k} |-> At(data, path).val[x]]))
With(data, path, k, new) ==
    Put(data, path, DictData((k :> new) @@ At(data, path).val))

\* Valid documents of the wire format
TypedDoc(type_url, key) ==
    DictData([type_url |-> NameData(type_url), config |-> DictData([key |-> NameData(key)])])
ValueMatchDoc(variant, value) == DictData((variant :> StrData(value)))
SingleDoc(input, value_match) ==
    DictData([type |-> NameData("single"), input |-> input, value_match |-> value_match])
CustomDoc(input, custom_match) ==
    DictData([type |-> NameData("single"), input |-> input, custom_match |-> custom_match])
AndDoc(predicates) == DictData([type |-> NameData("and"), predicates |-> ListData(predicates)])
OrDoc(predicates) == DictData([type |-> NameData("or"), predicates |-> ListData(predicates)])
NotDoc(p) == DictData([type |-> NameData("not"), predicate |-> p])
ActionDoc(action) == DictData([type |-> NameData("action"), action |-> NameData(action)])
NestedDoc(m) == DictData([type |-> NameData("matcher"), matcher |-> m])
FieldMatcherDoc(p, on_match) == DictData([predicate |-> p, on_match |-> on_match])
MatcherDoc(matchers) == DictData([matchers |-> ListData(matchers)])
MatcherDocWith(matchers, on_no_match) ==
    DictData([matchers |-> ListData(matchers), on_no_match |-> on_no_match])

XInput == TypedDoc("xuma.test.v1.StringInput", "x")
YInput == TypedDoc("xuma.test.v1.StringInput", "y")
AnyDoc == DictData([type_url |-> NameData("test.AnyMatcher")])
SmallDoc ==
    MatcherDoc(<<FieldMatcherDoc(SingleDoc(YInput, ValueMatchDoc("Prefix", <<>>)),
                                 ActionDoc("a2"))>>)

\* Every kind of node occurs in the base document.
BaseDoc ==
    MatcherDocWith(
        <<FieldMatcherDoc(SingleDoc(XInput, ValueMatchDoc("Exact", <<1>>)),
                          ActionDoc("a1")),
          FieldMatcherDoc(AndDoc(<<CustomDoc(YInput, AnyDoc),
                                   NotDoc(OrDoc(<<>>))>>),
                          NestedDoc(SmallDoc))>>,
        ActionDoc("d"))

\* The paths to the values of a document.  The payload of a typed config
\* and the value of an action are opaque to the wire format: the paths stop
\* at them.
RECURSIVE Paths(_, _)
Paths(data, path) ==
    {path} \cup
    CASE data.type = "dict" ->
            UNION {IF k \in {"config", "action"} THEN {Append(path, Key(k))}
                   ELSE Paths(data.val[k], Append(path, Key(k))) : k \in DOMAIN data.val}
      [] data.type = "list" ->
            UNION {Paths(data.val[i], Append(path, Item(i))) : i \in DOMAIN data.val}
      [] OTHER -> {}

DictPaths(data) ==
    {p \in Paths(data, <<>>) :
        /\ At(data, p).type = "dict"
        /\ p # <<>> => p[Len(p)] \notin {Key("config"), Key("action")}}

\* The name of the last step of a path
LastKey(path) ==
    IF path = <<>> THEN ""
    ELSE IF "key" \in DOMAIN path[Len(path)] THEN path[Len(path)].key
    ELSE "[]"

\* Values to put where the wire format wants another type
WrongValues ==
    {IntData(5), NoneData, ListData(<<>>), EmptyDict, DictData([zz |-> IntData(5)]),
     StrData(<<>>), StrData(<<1, 2>>)}

\* Keys to add to a map that lacks them
ExtraKeys ==
    [action |-> NameData("a9"), matcher |-> SmallDoc, custom_match |-> AnyDoc,
     value_match |-> ValueMatchDoc("Exact", <<1>>), predicates |-> ListData(<<>>),
     Exact |-> StrData(<<1>>), Regex |-> StrData(<<2>>), Suffix |-> IntData(5),
     zz |-> IntData(5)]

Edit(op, path, key, val) == [op |-> op, path |-> path, key |-> key, val |-> val]
Edited(doc, e) == [doc |-> doc, edit |-> e]

\* The document as it is
Unedited(base) == {Edited(base, Edit("none", <<>>, "", NoneData))}

\* One key of one map removed
Dropped(base) ==
    UNION {{Edited(Without(base, p, k), Edit("drop", p, k, NoneData)) :
                k \in DOMAIN At(base, p).val} : p \in DictPaths(base)}

\* One key of one map misspelt
Renamed(base) ==
    UNION {{Edited(With(Without(base, p, k), p, "zz", At(base, p).val[k]),
                   Edit("rename", p, k, NoneData)) :
                k \in DOMAIN At(base, p).val} : p \in DictPaths(base)}

\* One value replaced by a value of another type; an action may be any value
Replaced(base) ==
    UNION {{Edited(Put(base, p, w), Edit("replace", p, LastKey(p), w)) :
                w \in {w \in WrongValues : w.type # At(base, p).type}} :
           p \in {p \in Paths(base, <<>>) : LastKey(p) # "action"}}

\* One discriminator replaced by a name the wire format does not know
Unknown(base) ==
    {Edited(Put(base, Append(p, Key("type")), NameData("bogus")),
            Edit("unknown", p, "type", NameData("bogus"))) :
        p \in {p \in DictPaths(base) : Has(At(base, p), "type")}}

\* One key added to one map
Added(base) ==
    UNION {{Edited(With(base, p, k, ExtraKeys[k]), Edit("add", p, k, ExtraKeys[k])) :
                k \in DOMAIN ExtraKeys \ DOMAIN At(base, p).val} : p \in DictPaths(base)}

Documents ==
    Unedited(BaseDoc) \cup Dropped(BaseDoc) \cup Renamed(BaseDoc) \cup Replaced(BaseDoc)
        \cup Unknown(BaseDoc) \cup Added(BaseDoc)

\* parse_matcher_config(data), in an interpreter process that iterates
\* _STRING_MATCH_VARIANTS in some order
ParseFrom(pool) ==
    /\ pc = "init"
    /\ \E d \in pool, order \in VariantOrders :
          \E r \in {parse_matcher_config(d.doc, order)} :
              /\ document' = d.doc
              /\ edit' = d.edit
              /\ config' = r.val
              /\ error' = r.err
              /\ pc' = IF r.ok THEN "parsed" ELSE "parse raised"
    /\ UNCHANGED <<predicate, matcher, ctx, result, verdict, trace, args, nests>>
    /\ UNCHANGED regVars

Parse == ParseFrom(Documents)

NextParse == Parse
SpecParse == Init /\ [][NextParse]_vars

----------------------------------------------------------------------------
(* The parser's claims *)

ParseDone == pc \in {"parsed", "parse raised"}
Rejected == pc = "parse raised" /\ error.kind = "ConfigParseError"

\* The on_match objects of a document: the maps under "on_match" and
\* "on_no_match"
OnMatchObjects(data) ==
    {At(data, p) : p \in {p \in DictPaths(data) : LastKey(p) \in {"on_match", "on_no_match"}}}

(* C11: OnMatch exclusivity at parse.  A document in which one on_match    *)
(* object has both an "action" key and a "matcher" key is rejected with a  *)
(* parse error, whatever the "type" of that object is: no config is        *)
(* produced from it.                                                       *)
C11_OnMatchExclusive ==
    ParseDone =>
        ((\E om \in OnMatchObjects(document) : Has(om, "action") /\ Has(om, "matcher"))
            => Rejected)

\* A path leads to a node of the document
RECURSIVE Exists(_, _)
Exists(data, path) ==
    \/ path = <<>>
    \/ /\ IF "key" \in DOMAIN Head(path) THEN data.type = "dict" ELSE data.type = "list"
       /\ IF "key" \in DOMAIN Head(path) THEN Has(data, Head(path).key)
          ELSE Head(path).idx \in DOMAIN data.val
       /\ Exists(Child(data, Head(path)), Tail(path))

\* The node of a config that was parsed from the node of the document at a
\* path: the fields of the config classes have the names of the keys.
RECURSIVE ConfigAt(_, _)
ConfigAt(cfg, path) ==
    IF path = <<>> THEN cfg
    ELSE IF "key" \in DOMAIN Head(path) THEN ConfigAt(cfg[Head(path).key], Tail(path))
    ELSE ConfigAt(cfg[Head(path).idx], Tail(path))

\* The single predicates of the document: those of the valid document that
\* the edit left in place
SinglePredicates ==
    {p \in DictPaths(BaseDoc) :
        /\ Get(At(BaseDoc, p), "type", NoneData) = NameData("single")
        /\ Exists(document, p)
        /\ At(document, p).type = "dict"
        /\ Get(At(document, p), "type", NoneData) = NameData("single")}

(* C12: single-predicate oneof.  A single predicate with both value_match  *)
(* and custom_match, or with neither, makes parse_matcher_config raise     *)
(* ConfigParseError; a SinglePredicateConfig is produced only for exactly  *)
(* one of the two keys, with a BuiltInMatch for value_match and a          *)
(* CustomMatch for custom_match.                                           *)
C12_SingleOneof ==
    ParseDone =>
        \A p \in SinglePredicates :
            LET has_value_match == Has(At(document, p), "value_match")
                has_custom_match == Has(At(document, p), "custom_match")
            IN  /\ has_value_match /\ has_custom_match => Rejected
                /\ ~has_value_match /\ ~has_custom_match => Rejected
                /\ pc = "parsed" =>
                     /\ has_value_match # has_custom_match
                     /\ ConfigAt(config, p).type = "SinglePredicateConfig"
                     /\ ConfigAt(config, p).matcher.type =
                            IF has_value_match THEN "BuiltInMatch" ELSE "CustomMatch"

C12_Witness ==
    /\ Rejected
    /\ error = ConfigParseError("exactly one of 'value_match' or 'custom_match' must be set, got both")
    /\ edit.op = "add"
    /\ \E p \in SinglePredicates :
          Has(At(document, p), "value_match") /\ Has(At(document, p), "custom_match")

\* The single predicates of the document that have a value_match only
WithValueMatch ==
    {p \in SinglePredicates :
        Has(At(document, p), "value_match") /\ ~Has(At(document, p), "custom_match")}

\* The known variant keys of a value_match
KnownVariants(value_match) ==
    IF value_match.type = "dict" THEN DOMAIN value_match.val \cap STRING_MATCH_VARIANTS
    ELSE {}

(* C13: value_match shape.  A value_match is accepted only if it is a map  *)
(* with exactly one known variant key whose value is a string: with no     *)
(* known variant key, or with two or more, the document is rejected with   *)
(* ConfigParseError, so that the variant of the BuiltInMatch is the one    *)
(* variant key of the document.                                            *)
C13_ValueMatchShape ==
    ParseDone =>
        \A p \in WithValueMatch :
            LET value_match == At(document, p).val["value_match"]
                known == KnownVariants(value_match)
            IN  /\ Cardinality(known) # 1 => Rejected
                /\ pc = "parsed" =>
                     \E variant \in known :
                         /\ known = {variant}
                         /\ value_match.val[variant].type = "str"
                         /\ ConfigAt(config, p).matcher =
                                BuiltInMatch(variant, value_match.val[variant].val)

\* The required keys of a node of a valid document, by the wire format
RequiredKeys(node) ==
    CASE Has(node, "matchers") -> {"matchers"}
      [] Has(node, "on_match") -> {"predicate", "on_match"}
      [] Has(node, "type_url") -> {"type_url"}
      [] Has(node, "type") ->
            {"type"} \cup
            (CASE node.val["type"] = NameData("single") -> {"input"}
               [] node.val["type"] \in {NameData("and"), NameData("or")} -> {"predicates"}
               [] node.val["type"] = NameData("not") -> {"predicate"}
               [] node.val["type"] = NameData("action") -> {"action"}
               [] node.val["type"] = NameData("matcher") -> {"matcher"})
      [] OTHER -> {}

\* The keys that may be left out
OptionalKeys == {"on_no_match", "config"}

(* C14: missing required keys are errors.  A document that lacks a         *)
(* required key at some node ("matchers", "predicate", "on_match", "type", *)
(* "input", "predicates", "action", "matcher", "type_url", each at the     *)
(* node that requires it) is rejected with ConfigParseError; leaving out   *)
(* "on_no_match" or the "config" of a typed config is accepted.            *)
C14_MissingRequiredKey ==
    ParseDone /\ edit.op \in {"drop", "rename"} =>
        /\ edit.key \in RequiredKeys(At(BaseDoc, edit.path)) => Rejected
        /\ edit.key \in OptionalKeys => pc = "parsed"

(* C15: parser error kind.  A document with a wrongly typed value at some  *)
(* position ("matchers" or "predicates" that is not a list, a predicate,   *)
(* on_match, value_match or typed config that is not a map, a type_url or  *)
(* a pattern that is not a string, an unknown discriminator) makes         *)
(* parse_matcher_config fail with ConfigParseError and no other exception  *)
(* kind; no config is returned for it.                                     *)
C15_OnlyConfigParseError ==
    ParseDone /\ edit.op \in {"replace", "unknown"} =>
        /\ pc = "parse raised"
        /\ error.kind = "ConfigParseError"
        /\ config = NoObject

----------------------------------------------------------------------------
(* _registry.py: RegistryBuilder and Registry *)

\* A dict object is known by its place in dicts: two objects holding the
\* same items are still two objects.  A Registry refers to its two dicts
\* through read-only MappingProxyType views.
Ref(input_factories, matcher_factories) ==
    [input_factories |-> input_factories, matcher_factories |-> matcher_factories]

\* The two dicts an object refers to, as the loader reads them
Deref(heap, ref) ==
    [input_factories |-> heap[ref.input_factories],
     matcher_factories |-> heap[ref.matcher_factories]]

\* A build() that hands out views of the builder's own dicts
BuildShared(heap, b) == [dicts |-> heap, registry |-> b]

\* RegistryBuilder.build: Registry(MappingProxyType(dict(...)), ...), each
\* dict(...) a new dict object with the items of the builder's dict
Build(heap, b) ==
    [dicts |-> heap \o <<heap[b.input_factories], heap[b.matcher_factories]>>,
     registry |-> Ref(Len(heap) + 1, Len(heap) + 2)]

\* How many Registry objects are built
MaxBuilds == 2

\* The factories registered in the model, each under its type url
InputFactories ==
    [u \in {"b.Input", "a.Input"} |->
        IF u = "b.Input" THEN "subscript_input_factory" ELSE "_dict_input_factory"]
MatcherFactories ==
    [u \in {"test.LenMatcher", "test.AnyMatcher"} |->
        IF u = "test.LenMatcher" THEN "len_matcher_factory" ELSE "any_matcher_factory"]

\* Configs of one field matcher with a single predicate
SingleConfig(input, m) ==
    MatcherConfig(<<FieldMatcherConfig(SinglePredicateConfig(input, m), ActionConfig("a1"))>>,
                  NoOnMatch)
RegistryConfigs ==
    {SingleConfig(TypedConfig("a.Input", "x"), BuiltInMatch("Exact", <<1>>)),
     SingleConfig(TypedConfig("a.Input", None), BuiltInMatch("Exact", <<1>>)),
     SingleConfig(TypedConfig("b.Input", None), CustomMatch(TypedConfig("unknown.Matcher", None))),
     SingleConfig(TypedConfig("unknown.Input", None), BuiltInMatch("Exact", <<1>>)),
     SingleConfig(TypedConfig("a.Input", "x"), CustomMatch(TypedConfig("test.AnyMatcher", None))),
     SingleConfig(TypedConfig("b.Input", "y"), CustomMatch(TypedConfig("test.LenMatcher", None))),
     SingleConfig(TypedConfig("a.Input", "x"), CustomMatch(TypedConfig("unknown.Matcher", None))),
     SingleConfig(TypedConfig("b.Input", "y"), CustomMatch(TypedConfig("test.LenMatcher", "x")))}

\* RegistryBuilder()
NewBuilder ==
    /\ pc = "init"
    /\ dicts' = dicts \o <<EmptyPyDict, EmptyPyDict>>
    /\ builder' = Ref(Len(dicts) + 1, Len(dicts) + 2)
    /\ pc' = "building"
    /\ UNCHANGED <<predicate, matcher, ctx, result, verdict, trace, error, args, config,
                   nests, document, edit, registries, self, calls>>

\* builder.input(type_url, factory)
BuilderInput ==
    /\ pc = "building"
    /\ \E type_url \in DOMAIN InputFactories :
          dicts' = [dicts EXCEPT ![builder.input_factories] =
                        SetItem(@, type_url, InputFactories[type_url])]
    /\ UNCHANGED <<pc, predicate, matcher, ctx, result, verdict, trace, error, args,
                   config, nests, document, edit, builder, registries, self, calls>>

\* builder.matcher(type_url, factory)
BuilderMatcher ==
    /\ pc = "building"
    /\ \E type_url \in DOMAIN MatcherFactories :
          dicts' = [dicts EXCEPT ![builder.matcher_factories] =
                        SetItem(@, type_url, MatcherFactories[type_url])]
    /\ UNCHANGED <<pc, predicate, matcher, ctx, result, verdict, trace, error, args,
                   config, nests, document, edit, builder, registries, self, calls>>

\* builder.build()
BuilderBuild ==
    /\ pc = "building"
    /\ Len(registries) < MaxBuilds
    /\ \E b \in {Build(dicts, builder)} :
          /\ dicts' = b.dicts
          /\ registries' = Append(registries, b.registry)
    /\ UNCHANGED <<pc, predicate, matcher, ctx, result, verdict, trace, error, args,
                   config, nests, document, edit, builder, self, calls>>

\* registry.load_matcher(config), on the Registry built last
LoadWith ==
    /\ pc = "building"
    /\ registries # <<>>
    /\ \E cfg \in RegistryConfigs :
          \E r \in {load_matcher(Deref(dicts, registries[Len(registries)]), cfg)} :
              /\ self' = Len(registries)
              /\ config' = cfg
              /\ trace' = r.log
              /\ error' = r.err
              /\ IF r.ok
                 THEN matcher' = r.val /\ pc' = "loaded"
                 ELSE pc' = "load raised" /\ UNCHANGED matcher
    /\ UNCHANGED <<predicate, ctx, result, verdict, args, nests, document, edit, dicts,
                   builder, registries, calls>>

NextRegistry == NewBuilder \/ BuilderInput \/ BuilderMatcher \/ BuilderBuild \/ LoadWith
SpecRegistry == Init /\ [][NextRegistry]_vars

----------------------------------------------------------------------------
(* The registry's claims *)

\* The Registry of the last load_matcher call, and the single predicate of
\* the config it was given
Self == Deref(dicts, registries[self])
Single == config.matchers[1].predicate

\* A list holds exactly the urls of a set, in ascending order
Rank(url) == CHOOSE i \in DOMAIN UrlOrder : UrlOrder[i] = url
IsSortedListOf(list, urls) ==
    /\ Len(list) = Cardinality(urls)
    /\ {list[i] : i \in DOMAIN list} = urls
    /\ \A i, j \in DOMAIN list : i < j => Rank(list[i]) < Rank(list[j])

Registered(table) == DOMAIN table.at

\* The input factory ran and returned
InputLoads ==
    /\ Single.input.type_url \in Registered(Self.input_factories)
    /\ CallFactory(Self.input_factories.at[Single.input.type_url], Single.input.config).ok

(* C16: unknown type URL.  An input type_url that is not among the         *)
(* registry's input factories makes load_matcher fail with                 *)
(* UnknownTypeUrlError of kind "input", with that type_url and with the    *)
(* sorted list of exactly the registered input urls; an unregistered       *)
(* custom_match type_url fails likewise with kind "matcher" and the sorted *)
(* registered matcher urls.                                                *)
C16_UnknownTypeUrl ==
    pc \in {"loaded", "load raised"} =>
        /\ Single.input.type_url \notin Registered(Self.input_factories) =>
              /\ pc = "load raised"
              /\ error.kind = "UnknownTypeUrlError"
              /\ error.registry = "input"
              /\ error.type_url = Single.input.type_url
              /\ IsSortedListOf(error.available, Registered(Self.input_factories))
        /\ /\ InputLoads
           /\ Single.matcher.type = "CustomMatch"
           /\ Single.matcher.typed_config.type_url \notin Registered(Self.matcher_factories)
           => /\ pc = "load raised"
              /\ error.kind = "UnknownTypeUrlError"
              /\ error.registry = "matcher"
              /\ error.type_url = Single.matcher.typed_config.type_url
              /\ IsSortedListOf(error.available, Registered(Self.matcher_factories))

\* Both kinds are registered, the input urls not in sorted order, and an
\* unknown input url was reported
C16_Witness ==
    /\ pc = "load raised"
    /\ error.kind = "UnknownTypeUrlError"
    /\ error.registry = "input"
    /\ Self.input_factories.keys = <<"b.Input", "a.Input">>
    /\ Registered(Self.matcher_factories) # {}
    /\ error.available = <<"a.Input", "b.Input">>

\* The matcher factory of a custom_match ran
MatcherFactoryCalled ==
    /\ InputLoads
    /\ Single.matcher.type = "CustomMatch"
    /\ Single.matcher.typed_config.type_url \in Registered(Self.matcher_factories)

\* What the factories give for the payloads of the config
InputCall ==
    CallFactory(Self.input_factories.at[Single.input.type_url], Single.input.config)
MatcherCall ==
    CallFactory(Self.matcher_factories.at[Single.matcher.typed_config.type_url],
                Single.matcher.typed_config.config)

\* load_matcher failed with InvalidConfigError carrying the reason, and
\* gave no Matcher
Wrapped(call) ==
    /\ pc = "load raised"
    /\ error = InvalidConfigError(call.why)
    /\ matcher = NoObject

C18_InvalidRegexKind ==
    LoadDone =>
        \A k \in DOMAIN trace :
            /\ trace[k].ev = "compile"
            /\ trace[k].node.variant = "Regex"
            /\ ~Re2Compiles(trace[k].node.value)
            => /\ pc = "load raised"
               /\ k = Len(trace)
               /\ matcher = NoObject
               /\ error.kind = "InvalidRegex"
               /\ error.kind # "InvalidConfigError"

\* Everything a caller can observe of a Registry: input_count,
\* matcher_count, contains_input and contains_matcher for every url,
\* input_type_urls(), matcher_type_urls(), and what load_matcher gives for
\* every config of the model
AllUrls == {UrlOrder[i] : i \in DOMAIN UrlOrder}
Observed(heap, ref) ==
    LET reg == Deref(heap, ref)
    IN  [input_count |-> Len(reg.input_factories.keys),
         matcher_count |-> Len(reg.matcher_factories.keys),
         contains_input |-> [u \in AllUrls |-> HasKey(reg.input_factories, u)],
         contains_matcher |-> [u \in AllUrls |-> HasKey(reg.matcher_factories, u)],
         input_type_urls |-> SortedUrls(reg.input_factories),
         matcher_type_urls |-> SortedUrls(reg.matcher_factories),
         load_matcher |-> [cfg \in RegistryConfigs |-> load_matcher(reg, cfg)]]

(* C19: the Registry is frozen after build.  Once build() has returned a   *)
(* Registry, no later builder.input, builder.matcher or build call changes *)
(* what that Registry answers: its counts, its contains_input and          *)
(* contains_matcher answers, its sorted url lists and the outcome of       *)
(* load_matcher for any config.                                            *)
C19_FrozenAfterBuild ==
    [][\A i \in DOMAIN registries :
          /\ i \in DOMAIN registries'
          /\ Observed(dicts', registries'[i]) = Observed(dicts, registries[i])]_vars

\* A Registry was built, the builder registered an input and a matcher
\* after that and built a second Registry; the first one still has none
C19_Witness ==
    /\ Len(registries) = 2
    /\ Observed(dicts, registries[1]).input_count = 0
    /\ Observed(dicts, registries[1]).matcher_count = 0
    /\ Observed(dicts, registries[2]).input_count = 1
    /\ Deref(dicts, builder).input_factories.keys = <<"b.Input", "a.Input">>
    /\ Deref(dicts, builder).matcher_factories.keys = <<"test.AnyMatcher">>

----------------------------------------------------------------------------
(* The path from a document to a Matcher: parse, load, evaluate *)

PXDoc == SingleDoc(XInput, ValueMatchDoc("Exact", <<1>>))
PYDoc == SingleDoc(YInput, ValueMatchDoc("Prefix", <<>>))
NullActionDoc == DictData([type |-> NameData("action"), action |-> NoneData])

\* Field matchers of every structure
FieldMatcherDocs ==
    {FieldMatcherDoc(PXDoc, ActionDoc("a1")),
     FieldMatcherDoc(PYDoc, NestedDoc(SmallDoc)),
     FieldMatcherDoc(NotDoc(PXDoc), ActionDoc("a2")),
     FieldMatcherDoc(AndDoc(<<PYDoc, PXDoc>>), NullActionDoc),
     FieldMatcherDoc(OrDoc(<<PXDoc, CustomDoc(YInput, AnyDoc)>>), ActionDoc("a1")),
     FieldMatcherDoc(OrDoc(<<>>), ActionDoc("a2"))}

OnNoMatchDocs == {ActionDoc("d"), NestedDoc(SmallDoc)}

StructureDocs ==
    {MatcherDoc(fms) : fms \in SeqsUpTo(FieldMatcherDocs, MaxFieldMatchers)}
        \cup {MatcherDocWith(fms, onm) :
                fms \in SeqsUpTo(FieldMatcherDocs, MaxFieldMatchers), onm \in OnNoMatchDocs}

\* One field matcher of every built-in variant, on patterns "", "a", "A"
\* and "(", and an on_no_match
VariantDocs ==
    {MatcherDocWith(<<FieldMatcherDoc(SingleDoc(input, ValueMatchDoc(variant, pattern)),
                                      ActionDoc("a1"))>>, ActionDoc("d")) :
        input \in {XInput, YInput}, variant \in STRING_MATCH_VARIANTS,
        pattern \in {<<>>, <<1>>, <<3>>, <<4>>}}

ValidDocuments == {Edited(doc, Edit("none", <<>>, "", NoneData)) :
                      doc \in StructureDocs \cup VariantDocs}

ParseValid == ParseFrom(ValidDocuments)

\* registry.load_matcher(config) on the config that was parsed
LoadParsed ==
    /\ pc = "parsed"
    /\ \E r \in {load_matcher(TestRegistry, config)} :
          /\ trace' = r.log
          /\ error' = r.err
          /\ IF r.ok
             THEN matcher' = r.val /\ pc' = "loaded"
             ELSE pc' = "load raised" /\ UNCHANGED matcher
    /\ UNCHANGED <<predicate, ctx, result, verdict, args, config, nests, document, edit>>
    /\ UNCHANGED regVars

\* matcher.evaluate(ctx) on the matcher that was loaded
EvaluateLoaded == pc = "loaded" /\ Evaluate

NextPipeline == ParseValid \/ LoadParsed \/ EvaluateLoaded
SpecPipeline == Init /\ [][NextPipeline]_vars

\* The Matcher a programmer builds for a document with the constructors of
\* the runtime types, node by node in the order of the document
HandInputMatcher(value_match) ==
    CASE Has(value_match, "Exact") -> ExactMatcher(value_match.val["Exact"].val, FALSE)
      [] Has(value_match, "Prefix") -> PrefixMatcher(value_match.val["Prefix"].val, FALSE)
      [] Has(value_match, "Suffix") -> SuffixMatcher(value_match.val["Suffix"].val, FALSE)
      [] Has(value_match, "Contains") ->
            ContainsMatcher(value_match.val["Contains"].val, FALSE)
      [] Has(value_match, "Regex") -> RegexMatcher(value_match.val["Regex"].val)

RECURSIVE HandPredicate(_)
HandPredicate(data) ==
    CASE data.val["type"] = NameData("single") ->
            SinglePredicate(DictInput(data.val["input"].val["config"].val["key"].name),
                            IF Has(data, "value_match")
                            THEN HandInputMatcher(data.val["value_match"])
                            ELSE AnyMatcher)
      [] data.val["type"] = NameData("and") ->
            And([i \in DOMAIN data.val["predicates"].val |->
                    HandPredicate(data.val["predicates"].val[i])])
      [] data.val["type"] = NameData("or") ->
            Or([i \in DOMAIN data.val["predicates"].val |->
                    HandPredicate(data.val["predicates"].val[i])])
      [] data.val["type"] = NameData("not") -> Not(HandPredicate(data.val["predicate"]))

RECURSIVE HandMatcher(_)
HandOnMatch(data) ==
    IF data.val["type"] = NameData("action")
    THEN Action(IF data.val["action"] = NoneData THEN None ELSE data.val["action"].name)
    ELSE NestedMatcher(HandMatcher(data.val["matcher"]))

HandMatcher(data) ==
    MatcherFields(
        [i \in DOMAIN data.val["matchers"].val |->
            FieldMatcher(HandPredicate(data.val["matchers"].val[i].val["predicate"]),
                         HandOnMatch(data.val["matchers"].val[i].val["on_match"]))],
        IF Has(data, "on_no_match") THEN HandOnMatch(data.val["on_no_match"])
        ELSE NoOnMatch)

(* C20: parse-then-load consistency.  The Matcher loaded from a document   *)
(* that parse_matcher_config and load_matcher accept returns, for every    *)
(* context, what the Matcher built by hand with the same structure (the    *)
(* same predicates in the same order, the same actions, nesting and        *)
(* on_no_match) returns.                                                   *)
C20_ParseThenLoad ==
    /\ pc \in {"loaded", "evaluated"} =>
          \A c \in Contexts :
              MatcherEvaluate(matcher, c, <<>>).res =
                  MatcherEvaluate(HandMatcher(document), c, <<>>).res
    /\ pc = "evaluated" => result = MatcherEvaluate(HandMatcher(document), ctx, <<>>).res

\* Two field matchers whose predicates are both true, the first one leading
\* into a nested matcher: the loaded matcher returns the nested action
C20_Witness ==
    /\ pc = "evaluated"
    /\ document = MatcherDocWith(<<FieldMatcherDoc(PYDoc, NestedDoc(SmallDoc)),
                                   FieldMatcherDoc(PXDoc, ActionDoc("a1"))>>,
                                 ActionDoc("d"))
    /\ ctx = [k \in Keys |-> StrData(<<1>>)]
    /\ result = "a2"

----------------------------------------------------------------------------
(* Repeated evaluation of one Matcher *)

\* How many evaluate calls are made on one Matcher
MaxCalls == 3

\* matcher_list and on_no_match of the matchers evaluated repeatedly
RepeatArgs ==
    {<<<<FieldMatcher(PX, Action("a1")), FieldMatcher(And(<<>>), Action("a2"))>>, NoOnMatch>>,
     <<<<FieldMatcher(PX, NestedMatcher(Inner)), FieldMatcher(Not(PY), Action("a2"))>>,
       Action("d")>>,
     <<<<FieldMatcher(Or(<<PX, PY>>), Action(None)), FieldMatcher(PY, Action("a1"))>>,
       NestedMatcher(Inner)>>,
     <<<<>>, Action("d")>>}

RepeatContexts ==
    {c \in Contexts : c["x"] \in {NoneData, StrData(<<1>>)}
                      /\ c["y"] \in {NoneData, StrData(<<1>>), IntData(0)}}

\* Matcher(matcher_list, on_no_match), to be evaluated several times
NewRepeatMatcher ==
    /\ pc = "init"
    /\ \E a \in RepeatArgs : Construct(a[1], a[2])
    /\ UNCHANGED <<predicate, ctx, result, verdict, trace, config, nests, document, edit>>
    /\ UNCHANGED regVars

\* A Matcher whose evaluate uses up its field matchers, as an iterator kept
\* in the field would
AfterEvaluateConsumed(m, c) == [m EXCEPT !.matcher_list = <<>>]

\* The Matcher after evaluate(c): the dataclasses are frozen, and evaluate
\* and the calls it makes assign to no field
AfterEvaluate(m, c) == m

\* matcher.evaluate(c), one more time on the same Matcher
EvaluateAgain ==
    /\ matcher # NoObject
    /\ pc \in {"constructed", "evaluated"}
    /\ Len(calls) < MaxCalls
    /\ \E c \in RepeatContexts :
          \E r \in {MatcherEvaluate(matcher, c, <<>>)} :
              /\ ctx' = c
              /\ result' = r.res
              /\ trace' = r.tr
              /\ calls' = Append(calls, [ctx |-> c, result |-> r.res])
              /\ matcher' = AfterEvaluate(matcher, c)
    /\ pc' = "evaluated"
    /\ UNCHANGED <<predicate, verdict, error, args, config, nests, document, edit, dicts,
                   builder, registries, self>>

NextRepeat == NewRepeatMatcher \/ EvaluateAgain
SpecRepeat == Init /\ [][NextRepeat]_vars

----------------------------------------------------------------------------
(* Evaluation of loaded matchers on values of every MatchingData type *)

\* A str, an int, a bool, bytes, or None for each key
TypedValues == {NoneData, StrData(<<1>>), IntData(0), BoolData(TRUE), BytesData(<<1>>)}
TypedContexts == [Keys -> TypedValues]

BuiltInLeaf(key, variant, pattern) ==
    SinglePredicateConfig(TypedConfig("xuma.test.v1.StringInput", key),
                          BuiltInMatch(variant, pattern))

\* A predicate around a leaf: its negation, a conjunction, an empty Or
CompoundOf(kind, leaf) ==
    CASE kind = "not" -> NotPredicateConfig(leaf)
      [] kind = "and" -> AndPredicateConfig(<<BuiltInLeaf("y", "Prefix", <<>>), leaf>>)
      [] kind = "or" -> OrPredicateConfig(<<>>)

\* Configs of built-in string matchers only: a single predicate of every
\* variant, then a compound one leading into a nested matcher
BuiltInConfigs ==
    {MatcherConfig(
        <<FieldMatcherConfig(BuiltInLeaf(key, variant, pattern), ActionConfig("a1")),
          FieldMatcherConfig(
              CompoundOf(kind, BuiltInLeaf(key, variant, pattern)),
              MatcherOnMatchConfig(
                  MatcherConfig(<<FieldMatcherConfig(BuiltInLeaf("y", variant, <<1>>),
                                                     ActionConfig("n1"))>>,
                                NoOnMatch)))>>,
        onm) :
        key \in Keys, variant \in Variants, pattern \in {<<>>, <<1>>},
        kind \in {"not", "and", "or"}, onm \in {NoOnMatch, ActionConfig("d")}}

LoadBuiltIn == LoadFrom(BuiltInConfigs)

\* The str operations of the matches methods (casefold, startswith,
\* endswith, in, search) raise AttributeError or TypeError on a value that
\* is no str; == does not.  This is matches without its isinstance test.
MatchesRaisesNoGuard(m, value) ==
    /\ ~IsInstanceStr(value)
    /\ ~(m.type = "ExactMatcher" /\ ~m.ignore_case)

\* Whether matcher.matches(value) raises: `if not isinstance(value, str):
\* return False` comes before any str operation
MatchesRaises(m, value) ==
    IF ~IsInstanceStr(value) THEN FALSE ELSE MatchesRaisesNoGuard(m, value)

\* The predicate or matcher an evaluation path leads to
RECURSIVE NodeAt(_, _)
NodeAt(node, path) ==
    IF path = <<>> THEN node
    ELSE CASE node.type = "Matcher" ->
                IF path[1] = 0 THEN NodeAt(node.on_no_match.matcher, Tail(path))
                ELSE IF path[2] = 1
                THEN NodeAt(node.matcher_list[path[1]].predicate,
                            SubSeq(path, 3, Len(path)))
                ELSE NodeAt(node.matcher_list[path[1]].on_match.matcher,
                            SubSeq(path, 3, Len(path)))
           [] node.type \in {"And", "Or"} -> NodeAt(node.predicates[path[1]], Tail(path))
           [] node.type = "Not" -> NodeAt(node.predicate, Tail(path))

\* The exception m.evaluate(c) ends with, given the calls tr it makes: the
\* evaluate methods and _evaluate_on_match raise nothing themselves, so it
\* is what some matches call raises
EvaluateError(m, c, tr) ==
    IF \E k \in DOMAIN tr :
          /\ tr[k].ev = "matches"
          /\ MatchesRaises(NodeAt(m, tr[k].at).matcher,
                           InputGet(NodeAt(m, tr[k].at).input, c))
    THEN [kind |-> "TypeError"]
    ELSE NoError

\* matcher.evaluate(c) on a loaded Matcher
EvaluateTyped ==
    /\ pc = "loaded"
    /\ \E c \in TypedContexts :
          \E r \in {MatcherEvaluate(matcher, c, <<>>)} :
              /\ ctx' = c
              /\ trace' = r.tr
              /\ error' = EvaluateError(matcher, c, r.tr)
              /\ IF EvaluateError(matcher, c, r.tr) = NoError
                 THEN result' = r.res /\ pc' = "evaluated"
                 ELSE pc' = "evaluate raised" /\ UNCHANGED result
    /\ UNCHANGED <<predicate, matcher, verdict, args, config, nests, document, edit>>
    /\ UNCHANGED regVars

NextTotal == LoadBuiltIn \/ EvaluateTyped
SpecTotal == Init /\ [][NextTotal]_vars

\* The action values of a matcher, nested ones included
RECURSIVE ActionValues(_)
OnMatchValues(om) ==
    CASE om.type = "Action" -> {om.value}
      [] om.type = "NestedMatcher" -> ActionValues(om.matcher)
      [] OTHER -> {}

ActionValues(m) ==
    UNION ({OnMatchValues(m.matcher_list[i].on_match) : i \in DOMAIN m.matcher_list}
           \cup {OnMatchValues(m.on_no_match)})

----------------------------------------------------------------------------
(* Wide matchers, from the constructor and from the loader *)

\* Matcher(matcher_list, on_no_match) with a matcher_list of n field
\* matchers, n around MAX_FIELD_MATCHERS: __post_init__ validates the depth
NewWideMatcher ==
    /\ pc = "init"
    /\ \E fm \in FieldMatchers, n \in Around(MAX_FIELD_MATCHERS), onm \in OnNoMatches :
          Construct(Repeat(fm, n), onm)
    /\ UNCHANGED <<predicate, ctx, result, verdict, trace, config, nests, document, edit>>
    /\ UNCHANGED regVars

\* registry.load_matcher(cfg) for a config with a list around the limit
LoadWide == LoadFrom(WideConfigs)

NextWidth == NewWideMatcher \/ LoadWide
SpecWidth == Init /\ [][NextWidth]_vars

(* C23: width invariant of the data model.  Every Matcher that exists,     *)
(* whether the loader returned it or the constructor was called directly,  *)
(* and every matcher nested in it, has at most MAX_FIELD_MATCHERS (256)    *)
(* field matchers.                                                         *)
C23_WidthInvariant ==
    matcher # NoObject =>
        \A m \in SubMatchers(matcher) : Len(m.matcher_list) <= MAX_FIELD_MATCHERS

\* What does hold: the matchers the loader returns are within the limit
LoadedWithinWidth ==
    pc = "loaded" =>
        \A m \in SubMatchers(matcher) : Len(m.matcher_list) <= MAX_FIELD_MATCHERS

\* The constructor returns a Matcher of 257 field matchers
WideMatcherConstructed ==
    /\ pc = "constructed"
    /\ Len(matcher.matcher_list) = MAX_FIELD_MATCHERS + 1

----------------------------------------------------------------------------
(* _predicate.py: the composition helpers *)

\* A helper that wraps a single child as it wraps several
and_predicate_wrapping(predicates, catch_all) ==
    IF predicates = <<>> THEN catch_all ELSE And(predicates)

\* and_predicate(predicates, catch_all)
and_predicate(predicates, catch_all) ==
    IF predicates = <<>> THEN catch_all
    ELSE IF Len(predicates) = 1 THEN predicates[1]
    ELSE And(predicates)

\* or_predicate(predicates, catch_all)
or_predicate(predicates, catch_all) ==
    IF predicates = <<>> THEN catch_all
    ELSE IF Len(predicates) = 1 THEN predicates[1]
    ELSE Or(predicates)

\* The catch-all predicates the helpers are called with: the always-true
\* And(()) of the gateway compiler, the always-false Or(()) and a leaf
CatchAlls == {And(<<>>), Or(<<>>), PY}

\* The call and its arguments
HelperCall(helper, predicates, catch_all) ==
    [helper |-> helper, predicates |-> predicates, catch_all |-> catch_all]

\* What the helper called returns
Composed(call) ==
    IF call.helper = "and_predicate"
    THEN and_predicate(call.predicates, call.catch_all)
    ELSE or_predicate(call.predicates, call.catch_all)

\* predicate = and_predicate(ps, catch_all) or or_predicate(ps, catch_all)
Compose ==
    /\ pc = "init"
    /\ \E helper \in {"and_predicate", "or_predicate"},
          ps \in SeqsUpTo(ChildPool, MaxChildren), catch_all \in CatchAlls :
          /\ args' = HelperCall(helper, ps, catch_all)
          /\ predicate' = Composed(HelperCall(helper, ps, catch_all))
    /\ pc' = "composed"
    /\ UNCHANGED <<matcher, ctx, result, verdict, trace, error, config, nests, document, edit>>
    /\ UNCHANGED regVars

\* predicate.evaluate(c) on the composed predicate
EvaluateComposed == pc \in {"composed", "predicate evaluated"} /\ EvaluatePredicate

NextCompose == Compose \/ EvaluateComposed
SpecCompose == Init /\ [][NextCompose]_vars

\* The compound the helper stands for
Plain(call) ==
    IF call.helper = "and_predicate" THEN And(call.predicates) ELSE Or(call.predicates)

\* C24: and_predicate(ps, catch_all) is catch_all when ps is empty, ps[0]
\* itself when ps has one element and And(ps) otherwise, or_predicate the
\* same with Or; for non-empty ps the result evaluates like And(ps) (Or(ps))
\* on every context, and no other catch_all changes the result.
C24_CompositionHelpers ==
    pc \in {"composed", "predicate evaluated"} =>
        /\ args.predicates = <<>> => predicate = args.catch_all
        /\ Len(args.predicates) = 1 => predicate = args.predicates[1]
        /\ Len(args.predicates) > 1 => predicate = Plain(args)
        /\ args.predicates # <<>> =>
              /\ \A c \in Contexts :
                    PredicateEvaluate(predicate, c, <<>>).val
                        = PredicateEvaluate(Plain(args), c, <<>>).val
              /\ \A other \in CatchAlls :
                    Composed([args EXCEPT !.catch_all = other]) = predicate
              /\ pc = "predicate evaluated" =>
                    verdict = PredicateEvaluate(Plain(args), ctx, <<>>).val

\* A single child came back unwrapped and was evaluated where its verdict
\* differs from the catch-all's
C24_Witness ==
    /\ pc = "predicate evaluated"
    /\ Len(args.predicates) = 1
    /\ predicate = args.predicates[1]
    /\ predicate.type = "SinglePredicate"
    /\ verdict # PredicateEvaluate(args.catch_all, ctx, <<>>).val
----------------------------------------------------------------------------
(* The width check and the children of an overwide list *)

\* The single predicates the lists are made of: one that loads, and one for
\* each way a single predicate fails to load
OverlongCfg ==
    SinglePredicateConfig(GoodInput, BuiltInMatch("Prefix", Repeat(1, MAX_PATTERN_LENGTH + 1)))
InvalidRegexCfg == SinglePredicateConfig(GoodInput, BuiltInMatch("Regex", <<4>>))
UnknownMatcherCfg ==
    SinglePredicateConfig(GoodInput, CustomMatch(TypedConfig("unknown.Matcher", None)))
ChildCfgs == {ExactCfg, UnknownCfg, OverlongCfg, InvalidRegexCfg, UnknownMatcherCfg}

\* Matcher configs with n field matchers, and with a compound of n children,
\* n around the limit
EntryConfigs ==
    {NestedAt(place, MatcherConfig(Repeat(FieldMatcherConfig(child, ActionConfig("a1")), n),
                                   NoOnMatch)) :
        place \in {"top", "on_match", "on_no_match"},
        child \in ChildCfgs,
        n \in Around(MAX_FIELD_MATCHERS)}
    \cup
    {MatcherConfig(
        <<FieldMatcherConfig(
            CompoundAt(place, [type |-> kind, predicates |-> Repeat(child, n)]),
            ActionConfig("a1"))>>,
        NoOnMatch) :
        place \in {"top", "not", "and"},
        kind \in {"AndPredicateConfig", "OrPredicateConfig"},
        child \in ChildCfgs,
        n \in Around(MAX_PREDICATES_PER_COMPOUND)}

LoadEntry == LoadFrom(EntryConfigs)

NextEntry == LoadEntry
SpecEntry == Init /\ [][NextEntry]_vars

\* The calls that load a child: a factory invoked, a pattern checked or compiled
ChildCalls == {"input_factory", "matcher_factory", "check_pattern_length", "compile"}

\* The list of a config node the loader counts, if it has one
ListOf(node) ==
    IF node.type = "MatcherConfig" THEN node.matchers
    ELSE IF node.type \in {"AndPredicateConfig", "OrPredicateConfig"} THEN node.predicates
    ELSE <<>>

\* C25: a matcher config with more than 256 field matchers raises
\* TooManyFieldMatchersError before any of its children is loaded, and an And
\* or Or config with more than 256 children raises TooManyPredicatesError
\* before any of its children is loaded: after the loader enters such a node
\* it calls no factory and checks and compiles no pattern, whatever error the
\* children hold.
C25_WidthCheckAtEntry ==
    LoadDone =>
        /\ \A k \in DOMAIN trace :
              (/\ trace[k].ev \in {"load_matcher", "load_compound"}
               /\ Len(ListOf(trace[k].node)) > 256) =>
                  /\ pc = "load raised"
                  /\ error.kind = IF trace[k].ev = "load_matcher"
                                  THEN "TooManyFieldMatchersError"
                                  ELSE "TooManyPredicatesError"
                  /\ \A j \in DOMAIN trace : j > k => trace[j].ev \notin ChildCalls
                  /\ k = Len(trace)
        /\ Len(config.matchers) > 256 => trace = <<Call("load_matcher", config)>>
        /\ (/\ Len(config.matchers) = 1
            /\ Len(ListOf(config.matchers[1].predicate)) > 256) =>
              trace = <<Call("load_matcher", config),
                        Call("load_compound", config.matchers[1].predicate)>>

\* 257 field matchers, each with a regex that does not compile: the load
\* ends with the width error and nothing was compiled
C25_Witness ==
    /\ pc = "load raised"
    /\ config = MatcherConfig(Repeat(FieldMatcherConfig(InvalidRegexCfg, ActionConfig("a1")), 257),
                              NoOnMatch)
    /\ error = TooManyFieldMatchersError(257, 256)
    /\ trace = <<Call("load_matcher", config)>>
----------------------------------------------------------------------------
(* The depth functions *)

\* matcher.depth(), on a Matcher the constructor returned
MeasureDepth ==
    /\ pc = "constructed"
    /\ calls' = Append(calls, [op |-> "depth", result |-> MatcherDepth(matcher)])
    /\ pc' = "measured"
    /\ UNCHANGED <<predicate, matcher, ctx, result, verdict, trace, error, args, config,
                   nests, document, edit, dicts, builder, registries, self>>

\* predicate_depth(predicate)
MeasurePredicate ==
    /\ pc = "predicate"
    /\ calls' = Append(calls, [op |-> "predicate_depth", result |-> predicate_depth(predicate)])
    /\ pc' = "predicate measured"
    /\ UNCHANGED <<predicate, matcher, ctx, result, verdict, trace, error, args, config,
                   nests, document, edit, dicts, builder, registries, self>>

NextMeasure ==
    NewPredicate \/ MeasurePredicate \/ NewMatcher \/ Nest \/ NestAsFallback \/ MeasureDepth
SpecMeasure == Init /\ [][NextMeasure]_vars

\* The greatest member of a set of numbers
GreatestOf(S) == CHOOSE x \in S : \A y \in S : y <= x

\* The depth of a predicate, an on_match or a Matcher as the definition
\* gives it
RECURSIVE DepthOf(_)
DepthOf(node) ==
    CASE node.type = "SinglePredicate" -> 1
      [] node.type \in {"And", "Or"} ->
            1 + GreatestOf({0} \cup {DepthOf(node.predicates[i]) :
                                        i \in DOMAIN node.predicates})
      [] node.type = "Not" -> 1 + DepthOf(node.predicate)
      [] node.type = "Action" -> 0
      [] node.type = "NestedMatcher" -> DepthOf(node.matcher)
      [] node.type = "Matcher" ->
            1 + GreatestOf({0}
                           \cup {DepthOf(node.matcher_list[i].predicate) :
                                    i \in DOMAIN node.matcher_list}
                           \cup {DepthOf(node.matcher_list[i].on_match) :
                                    i \in DOMAIN node.matcher_list}
                           \cup {DepthOf(node.on_no_match)})
      [] OTHER -> 0

\* C26: Matcher.depth() and predicate_depth give the depth of the recursive
\* definition: 1 for a single predicate, 1 + the greatest child depth (0 for
\* no child) for And and Or, 1 + the inner depth for Not, 0 for an Action,
\* the inner matcher's depth for a NestedMatcher, and for a Matcher 1 + the
\* greatest of its predicate depths, on_match depths and on_no_match depth,
\* so 1 for an empty compound and for an empty Matcher.
C26_DepthFunction ==
    /\ pc = "measured" =>
          /\ calls[1].result = DepthOf(matcher)
          /\ \A m \in SubMatchers(matcher) :
                /\ MatcherDepth(m) = DepthOf(m)
                /\ \A i \in DOMAIN m.matcher_list :
                      /\ predicate_depth(m.matcher_list[i].predicate) < MatcherDepth(m)
                      /\ on_match_depth(m.matcher_list[i].on_match) < MatcherDepth(m)
                      /\ m.matcher_list[i].on_match.type = "NestedMatcher" =>
                            on_match_depth(m.matcher_list[i].on_match)
                                = MatcherDepth(m.matcher_list[i].on_match.matcher)
                      /\ m.matcher_list[i].on_match.type = "Action" =>
                            on_match_depth(m.matcher_list[i].on_match) = 0
          /\ (matcher.matcher_list = <<>> /\ matcher.on_no_match = NoOnMatch) =>
                calls[1].result = 1
    /\ pc = "predicate measured" =>
          /\ calls[1].result = DepthOf(predicate)
          /\ predicate.type = "SinglePredicate" => calls[1].result = 1
          /\ predicate \in {And(<<>>), Or(<<>>)} => calls[1].result = 1
          /\ predicate.type = "Not" =>
                calls[1].result = 1 + predicate_depth(predicate.predicate)

\* The depth of a Matcher whose deepest part is the matcher nested under
\* on_no_match was taken
C26_Witness ==
    /\ pc = "measured"
    /\ matcher.on_no_match.type = "NestedMatcher"
    /\ calls[1].result = 1 + MatcherDepth(matcher.on_no_match.matcher)
    /\ \A i \in DOMAIN matcher.matcher_list :
          /\ predicate_depth(matcher.matcher_list[i].predicate) < calls[1].result - 1
          /\ on_match_depth(matcher.matcher_list[i].on_match) < calls[1].result - 1
    /\ matcher.matcher_list # <<>>
----------------------------------------------------------------------------
(* Absent data under Not *)

\* Not(SinglePredicate(input, matcher)) for every leaf of the model
NegatedLeaves == {Not(l) : l \in Leaves}

\* Not(leaf), and Not(leaf) inside And and Or
NewNegated ==
    /\ pc = "init"
    /\ \E n \in NegatedLeaves :
          predicate' \in {n, And(<<n, PX>>), Or(<<PX, n>>), Not(n)}
    /\ pc' = "predicate"
    /\ UNCHANGED <<matcher, ctx, result, verdict, trace, error, args, config, nests,
                   document, edit>>
    /\ UNCHANGED regVars

\* Matcher((FieldMatcher(Not(leaf), on_match), FieldMatcher(PX, Action("a2"))),
\* on_no_match)
NewGuarded ==
    /\ pc = "init"
    /\ \E n \in NegatedLeaves, om \in OnMatches, onm \in OnNoMatches :
          Construct(<<FieldMatcher(n, om), FieldMatcher(PX, Action("a2"))>>, onm)
    /\ UNCHANGED <<predicate, ctx, result, verdict, trace, config, nests, document, edit>>
    /\ UNCHANGED regVars

EvaluateNegated == pc \in {"predicate", "predicate evaluated"} /\ EvaluatePredicate
EvaluateGuarded == pc \in {"constructed", "evaluated"} /\ Evaluate

NextAbsent == NewNegated \/ EvaluateNegated \/ NewGuarded \/ EvaluateGuarded
SpecAbsent == Init /\ [][NextAbsent]_vars

\* The on_match of field matcher i was consulted
Fired(i) ==
    \E k \in DOMAIN trace :
        trace[k] \in {Ev("action", <<i, 2>>), Ev("evaluate", <<i, 2>>)}

\* The data a Not(Single) predicate names is absent from the context
AbsentUnder(p) == ctx[p.predicate.input.key] = NoneData

\* C27: when input.get returns None, Not(Single(input, matcher)).evaluate is
\* true for every matcher, and matches is not called; a field matcher guarded
\* by Not(Single) then fires: its on_match is consulted and its action, when
\* it is not None, is the result.
C27_AbsentUnderNot ==
    /\ (/\ pc = "predicate evaluated"
        /\ predicate \in NegatedLeaves
        /\ AbsentUnder(predicate)) =>
          verdict /\ ~MatchesCalled
    /\ (/\ pc = "predicate evaluated"
        /\ predicate \in NegatedLeaves
        /\ ~AbsentUnder(predicate)) =>
          verdict = ~Matches(predicate.predicate.matcher, ctx[predicate.predicate.input.key])
    /\ (/\ pc = "evaluated"
        /\ matcher.matcher_list[1].predicate \in NegatedLeaves
        /\ AbsentUnder(matcher.matcher_list[1].predicate)) =>
          /\ Fired(1)
          /\ (/\ matcher.matcher_list[1].on_match.type = "Action"
              /\ matcher.matcher_list[1].on_match.value # None) =>
                result = matcher.matcher_list[1].on_match.value
          /\ matcher.matcher_list[1].on_match.type = "NestedMatcher" =>
                LET r == MatcherEvaluate(matcher.matcher_list[1].on_match.matcher, ctx, <<1, 2>>)
                IN  r.res # None => result = r.res

\* The field matcher guarded by Not of a matcher that accepts everything
\* fired because "x" is missing
C27_Witness ==
    /\ pc = "evaluated"
    /\ matcher.matcher_list[1] = FieldMatcher(Not(PAny), Action("a1"))
    /\ ctx["x"] = NoneData
    /\ NoneData \in PAny.matcher.accepts
    /\ result = "a1"
----------------------------------------------------------------------------
(* The order of the loading steps *)

\* A registry with an input factory and two matcher factories, one of which
\* raises on a payload without "key"
OrderRegistry ==
    [input_factories |->
         SetItem(EmptyPyDict, "xuma.test.v1.StringInput", "_dict_input_factory"),
     matcher_factories |->
         SetItem(SetItem(EmptyPyDict, "test.AnyMatcher", "any_matcher_factory"),
                 "test.LenMatcher", "len_matcher_factory")]

\* Single predicates that load, and that fail at one step or at two
RaisingInput == TypedConfig("xuma.test.v1.StringInput", None)
OrderSingles ==
    {ExactCfg, UnknownCfg, InvalidRegexCfg, UnknownMatcherCfg,
     SinglePredicateConfig(RaisingInput, BuiltInMatch("Exact", <<1>>)),
     SinglePredicateConfig(GoodInput, CustomMatch(TypedConfig("test.LenMatcher", None))),
     SinglePredicateConfig(UnknownInput, BuiltInMatch("Regex", <<4>>)),
     SinglePredicateConfig(RaisingInput, CustomMatch(TypedConfig("unknown.Matcher", None))),
     SinglePredicateConfig(GoodInput,
                           BuiltInMatch("Regex", Repeat(4, MAX_REGEX_PATTERN_LENGTH + 1)))}
OrderPredicates ==
    OrderSingles
    \cup {AndPredicateConfig(<<UnknownCfg, InvalidRegexCfg>>),
          OrPredicateConfig(<<InvalidRegexCfg, UnknownCfg>>),
          NotPredicateConfig(UnknownMatcherCfg)}

\* on_match configs: an action, a nested matcher that does not load, one
\* that is as deep as a Matcher may be, and one that is a level too deep
OrderOnMatches ==
    {ActionConfig("a1"),
     MatcherOnMatchConfig(MatcherConfig(<<BadFmCfg>>, NoOnMatch)),
     MatcherOnMatchConfig(DeepConfig("top", MAX_DEPTH)),
     MatcherOnMatchConfig(DeepConfig("top", MAX_DEPTH + 1))}
OrderOnNoMatches ==
    {NoOnMatch,
     MatcherOnMatchConfig(
         MatcherConfig(<<FieldMatcherConfig(InvalidRegexCfg, ActionConfig("a1"))>>, NoOnMatch)),
     MatcherOnMatchConfig(DeepConfig("top", MAX_DEPTH + 1))}

OrderConfigs ==
    {MatcherConfig(<<FieldMatcherConfig(p1, om1), FieldMatcherConfig(p2, om2)>>, onm) :
        p1 \in OrderPredicates, om1 \in OrderOnMatches,
        p2 \in OrderPredicates, om2 \in OrderOnMatches,
        onm \in OrderOnNoMatches}

\* registry.load_matcher(cfg) on a registry of OrderRegistry's factories
LoadOrdered ==
    /\ pc = "init"
    /\ \E cfg \in OrderConfigs :
          \E r \in {load_matcher(OrderRegistry, cfg)} :
              /\ config' = cfg
              /\ trace' = r.log
              /\ error' = r.err
              /\ IF r.ok
                 THEN matcher' = r.val /\ pc' = "loaded"
                 ELSE pc' = "load raised" /\ UNCHANGED matcher
    /\ UNCHANGED <<predicate, ctx, result, verdict, args, nests, document, edit>>
    /\ UNCHANGED regVars

NextOrder == LoadOrdered
SpecOrder == Init /\ [][NextOrder]_vars

\* One step of a load: the calls it makes, and the error it fails with when
\* it is reached
Step(made, err) == [calls |-> made, err |-> err]

\* The steps of loading a config node, in document order, as if none failed
RECURSIVE StepsOf(_, _)
RECURSIVE FieldSteps(_, _, _)
RECURSIVE ChildSteps(_, _, _)
FieldSteps(reg, fms, i) ==
    IF i > Len(fms) THEN <<>>
    ELSE StepsOf(reg, fms[i].predicate) \o StepsOf(reg, fms[i].on_match)
             \o FieldSteps(reg, fms, i + 1)
ChildSteps(reg, ps, i) ==
    IF i > Len(ps) THEN <<>>
    ELSE StepsOf(reg, ps[i]) \o ChildSteps(reg, ps, i + 1)
StepsOf(reg, node) ==
    CASE node.type = "MatcherConfig" ->
            <<Step(<<Call("load_matcher", node)>>,
                   IF Len(node.matchers) > 256
                   THEN TooManyFieldMatchersError(Len(node.matchers), 256) ELSE NoError)>>
            \o FieldSteps(reg, node.matchers, 1)
            \o StepsOf(reg, node.on_no_match)
            \o <<Step(<<>>, IF ConfigDepth(node) > 32 THEN DepthError ELSE NoError)>>
      [] node.type = "MatcherOnMatchConfig" -> StepsOf(reg, node.matcher)
      [] node.type \in {"AndPredicateConfig", "OrPredicateConfig"} ->
            <<Step(<<Call("load_compound", node)>>,
                   IF Len(node.predicates) > 256
                   THEN TooManyPredicatesError(Len(node.predicates), 256) ELSE NoError)>>
            \o ChildSteps(reg, node.predicates, 1)
      [] node.type = "NotPredicateConfig" -> StepsOf(reg, node.predicate)
      [] node.type = "SinglePredicateConfig" ->
            <<Step(<<>>,
                   IF node.input.type_url \notin DOMAIN reg.input_factories.at
                   THEN UnknownTypeUrlError(node.input.type_url, "input",
                                            reg.input_factories.keys)
                   ELSE NoError),
              Step(<<Call("input_factory", node.input)>>,
                   IF /\ node.input.type_url \in DOMAIN reg.input_factories.at
                      /\ ~CallFactory(reg.input_factories.at[node.input.type_url],
                                      node.input.config).ok
                   THEN InvalidConfigError(
                            CallFactory(reg.input_factories.at[node.input.type_url],
                                        node.input.config).why)
                   ELSE NoError)>>
            \o StepsOf(reg, node.matcher)
      [] node.type = "BuiltInMatch" ->
            <<Step(<<Call("check_pattern_length", node)>>,
                   IF Len(node.value) > (IF node.variant = "Regex" THEN 4096 ELSE 8192)
                   THEN PatternTooLongError(Len(node.value),
                                            IF node.variant = "Regex" THEN 4096 ELSE 8192)
                   ELSE NoError),
              Step(<<Call("compile", node)>>,
                   IF node.variant = "Regex" /\ ~Re2Compiles(node.value)
                   THEN InvalidConfigError("invalid regex pattern") ELSE NoError)>>
      [] node.type = "CustomMatch" ->
            <<Step(<<>>,
                   IF node.typed_config.type_url \notin DOMAIN reg.matcher_factories.at
                   THEN UnknownTypeUrlError(node.typed_config.type_url, "matcher",
                                            reg.matcher_factories.keys)
                   ELSE NoError),
              Step(<<Call("matcher_factory", node.typed_config)>>,
                   IF /\ node.typed_config.type_url \in DOMAIN reg.matcher_factories.at
                      /\ ~CallFactory(reg.matcher_factories.at[node.typed_config.type_url],
                                      node.typed_config.config).ok
                   THEN InvalidConfigError(
                            CallFactory(reg.matcher_factories.at[node.typed_config.type_url],
                                        node.typed_config.config).why)
                   ELSE NoError)>>
      [] OTHER -> <<>>

\* The first step that fails, 0 when none does
FirstFailing(steps) ==
    IF \A k \in DOMAIN steps : steps[k].err = NoError THEN 0
    ELSE CHOOSE k \in DOMAIN steps :
            /\ steps[k].err # NoError
            /\ \A j \in 1..(k - 1) : steps[j].err = NoError

\* The calls of the steps 1..k
RECURSIVE CallsUpTo(_, _)
CallsUpTo(steps, k) == IF k = 0 THEN <<>> ELSE CallsUpTo(steps, k - 1) \o steps[k].calls

\* The load went as the steps say: it fails with the error of the first
\* failing step, having made the calls up to that step and none after
WentAs(steps, k) ==
    IF k = 0
    THEN pc = "loaded" /\ trace = CallsUpTo(steps, Len(steps))
    ELSE /\ pc = "load raised"
         /\ error = steps[k].err
         /\ trace = CallsUpTo(steps, k)

\* C28: load_matcher walks the config depth-first in document order (field
\* matchers left to right, the predicate before the on_match, the input
\* before the value match, on_no_match after the field matchers, a matcher's
\* depth check when it is finished) and fails with the error of the first
\* failing step in that order; no call of a later step is made.
C28_LoadErrorPrecedence ==
    (LoadDone /\ config \in OrderConfigs) =>
        WentAs(StepsOf(OrderRegistry, config),
               FirstFailing(StepsOf(OrderRegistry, config)))

\* The first field matcher's predicate loads and its nested matcher is a
\* level too deep, the second has an unknown input url: the load fails with
\* the depth error, and the second field matcher's steps were not reached
C28_Witness ==
    /\ pc = "load raised"
    /\ config.matchers[1] =
          FieldMatcherConfig(ExactCfg, MatcherOnMatchConfig(DeepConfig("top", MAX_DEPTH + 1)))
    /\ config.matchers[2].predicate = UnknownCfg
    /\ error = DepthError
    /\ Cardinality({k \in DOMAIN trace : trace[k].ev = "input_factory"}) = 2
----------------------------------------------------------------------------
(* Loads one after another on one Registry *)

\* How many times load_matcher is called on the Registry
MaxLoads == 2

\* Configs that load or fail, depending on what is registered: at the input
\* lookup, in the matcher factory, at the matcher lookup
AtomicConfigs ==
    {SingleConfig(TypedConfig("a.Input", "x"), BuiltInMatch("Exact", <<1>>)),
     SingleConfig(TypedConfig("unknown.Input", None), BuiltInMatch("Exact", <<1>>)),
     SingleConfig(TypedConfig("b.Input", "y"), CustomMatch(TypedConfig("test.LenMatcher", None))),
     SingleConfig(TypedConfig("a.Input", "x"), CustomMatch(TypedConfig("unknown.Matcher", None)))}

\* A load that leaves the url it did not find in the table it looked in
AfterLoadPoisoned(heap, ref, r) ==
    IF r.err.kind = "UnknownTypeUrlError" /\ r.err.registry = "input"
    THEN [heap EXCEPT ![ref.input_factories] =
              SetItem(@, r.err.type_url, "_dict_input_factory")]
    ELSE heap

\* The dicts after registry.load_matcher(config) gave r: the methods of
\* Registry read the two tables with .get and .keys and write nothing
AfterLoad(heap, ref, r) == heap

\* What a call of load_matcher gave
LoadOutcome(cfg, r) == [config |-> cfg, ok |-> r.ok, val |-> r.val, err |-> r.err]

\* registry.load_matcher(config) on the Registry built last, again and again
LoadRepeatedly ==
    /\ pc \in {"building", "loading"}
    /\ registries # <<>>
    /\ Len(calls) < MaxLoads
    /\ \E cfg \in AtomicConfigs :
          \E r \in {load_matcher(Deref(dicts, registries[Len(registries)]), cfg)} :
              /\ config' = cfg
              /\ trace' = r.log
              /\ error' = r.err
              /\ calls' = Append(calls, LoadOutcome(cfg, r))
              /\ matcher' = IF r.ok THEN r.val ELSE matcher
              /\ dicts' = AfterLoad(dicts, registries[Len(registries)], r)
    /\ self' = Len(registries)
    /\ args' = IF calls = <<>> THEN Deref(dicts, registries[Len(registries)]) ELSE args
    /\ pc' = "loading"
    /\ UNCHANGED <<predicate, ctx, result, verdict, nests, document, edit, builder,
                   registries>>

NextAtomic == NewBuilder \/ BuilderInput \/ BuilderMatcher \/ BuilderBuild \/ LoadRepeatedly
SpecAtomic == Init /\ [][NextAtomic]_vars

\* The calls that returned a Matcher
Successes == {k \in DOMAIN calls : calls[k].ok}

----------------------------------------------------------------------------
(* Registrations on a builder, and what the Registry built from them holds *)

\* How many input() and matcher() calls are made on the builder
MaxRegistrations == 3

\* The urls registered, each in either namespace, and the factories
RegisteredUrls == {"a.Input", "test.AnyMatcher"}
InputFactoryPool == {"_dict_input_factory", "subscript_input_factory"}
MatcherFactoryPool == {"any_matcher_factory", "len_matcher_factory"}

\* A call on the builder
Registration(op, type_url, factory) == [op |-> op, type_url |-> type_url, factory |-> factory]

\* builder.input(type_url, factory)
RegisterInput ==
    /\ pc = "building"
    /\ Len(calls) < MaxRegistrations
    /\ \E type_url \in RegisteredUrls, factory \in InputFactoryPool :
          /\ dicts' = [dicts EXCEPT ![builder.input_factories] = SetItem(@, type_url, factory)]
          /\ calls' = Append(calls, Registration("input", type_url, factory))
    /\ UNCHANGED <<pc, predicate, matcher, ctx, result, verdict, trace, error, args,
                   config, nests, document, edit, builder, registries, self>>

\* builder.matcher(type_url, factory)
RegisterMatcher ==
    /\ pc = "building"
    /\ Len(calls) < MaxRegistrations
    /\ \E type_url \in RegisteredUrls, factory \in MatcherFactoryPool :
          /\ dicts' = [dicts EXCEPT ![builder.matcher_factories] = SetItem(@, type_url, factory)]
          /\ calls' = Append(calls, Registration("matcher", type_url, factory))
    /\ UNCHANGED <<pc, predicate, matcher, ctx, result, verdict, trace, error, args,
                   config, nests, document, edit, builder, registries, self>>

\* registry = builder.build()
BuildOnce ==
    /\ pc = "building"
    /\ \E b \in {Build(dicts, builder)} :
          /\ dicts' = b.dicts
          /\ registries' = Append(registries, b.registry)
    /\ self' = Len(registries) + 1
    /\ pc' = "built"
    /\ UNCHANGED <<predicate, matcher, ctx, result, verdict, trace, error, args,
                   config, nests, document, edit, builder, calls>>

\* Registry.input_count, matcher_count, contains_input, contains_matcher
input_count(reg) == Len(reg.input_factories.keys)
matcher_count(reg) == Len(reg.matcher_factories.keys)
contains_input(reg, type_url) == HasKey(reg.input_factories, type_url)
contains_matcher(reg, type_url) == HasKey(reg.matcher_factories, type_url)

\* The introspection methods are called on the Registry
Inspect ==
    /\ pc = "built"
    /\ \E reg \in {Deref(dicts, registries[self])} :
          result' = [input_count |-> input_count(reg),
                     matcher_count |-> matcher_count(reg),
                     contains_input |-> [u \in RegisteredUrls |-> contains_input(reg, u)],
                     contains_matcher |-> [u \in RegisteredUrls |-> contains_matcher(reg, u)],
                     input_type_urls |-> SortedUrls(reg.input_factories),
                     matcher_type_urls |-> SortedUrls(reg.matcher_factories)]
    /\ pc' = "inspected"
    /\ UNCHANGED <<predicate, matcher, ctx, verdict, trace, error, args, config, nests,
                   document, edit, dicts, builder, registries, self, calls>>

\* Configs naming the registered urls as input and as custom matcher, with
\* payloads that tell the factories apart
BuiltConfigs ==
    {SingleConfig(TypedConfig(input_url, key), vm) :
        input_url \in RegisteredUrls,
        key \in {"x", None},
        vm \in {BuiltInMatch("Exact", <<1>>)}
               \cup {CustomMatch(TypedConfig(u, None)) : u \in RegisteredUrls}}

\* registry.load_matcher(config)
LoadBuilt ==
    /\ pc = "built"
    /\ \E cfg \in BuiltConfigs :
          \E r \in {load_matcher(Deref(dicts, registries[self]), cfg)} :
              /\ config' = cfg
              /\ trace' = r.log
              /\ error' = r.err
              /\ IF r.ok
                 THEN matcher' = r.val /\ pc' = "loaded"
                 ELSE pc' = "load raised" /\ UNCHANGED matcher
    /\ UNCHANGED <<predicate, ctx, result, verdict, args, nests, document, edit, dicts,
                   builder, registries, self, calls>>

NextBuilder ==
    NewBuilder \/ RegisterInput \/ RegisterMatcher \/ BuildOnce \/ Inspect \/ LoadBuilt
SpecBuilder == Init /\ [][NextBuilder]_vars

\* The registrations of a url in a namespace, and the factory of the last
RegistrationsOf(op, type_url) ==
    {k \in DOMAIN calls : calls[k].op = op /\ calls[k].type_url = type_url}
LastFactory(op, type_url) ==
    calls[CHOOSE k \in RegistrationsOf(op, type_url) :
              \A j \in RegistrationsOf(op, type_url) : j <= k].factory
UrlsOf(op) == {u \in RegisteredUrls : RegistrationsOf(op, u) # {}}

\* The tables of the Registry hold, for each url registered in a namespace,
\* the factory of its last registration there, and nothing else
TablesAsRegistered ==
    \E reg \in {Deref(dicts, registries[self])} :
        /\ DOMAIN reg.input_factories.at = UrlsOf("input")
        /\ DOMAIN reg.matcher_factories.at = UrlsOf("matcher")
        /\ \A u \in UrlsOf("input") : reg.input_factories.at[u] = LastFactory("input", u)
        /\ \A u \in UrlsOf("matcher") : reg.matcher_factories.at[u] = LastFactory("matcher", u)

\* What introspection answers follows the registrations, each namespace on
\* its own, a url counted once however often it was registered
InspectionAsRegistered ==
    /\ result.input_count = Cardinality(UrlsOf("input"))
    /\ result.matcher_count = Cardinality(UrlsOf("matcher"))
    /\ \A u \in RegisteredUrls :
          /\ result.contains_input[u] = (u \in UrlsOf("input"))
          /\ result.contains_matcher[u] = (u \in UrlsOf("matcher"))
    /\ IsSortedListOf(result.input_type_urls, UrlsOf("input"))
    /\ IsSortedListOf(result.matcher_type_urls, UrlsOf("matcher"))

\* A load resolves the input url among the inputs and the custom matcher url
\* among the matchers, and calls the factory registered last
LoadAsRegistered ==
    \E input \in {config.matchers[1].predicate.input},
       vm \in {config.matchers[1].predicate.matcher} :
        IF input.type_url \notin UrlsOf("input")
        THEN /\ error.kind = "UnknownTypeUrlError"
             /\ error.type_url = input.type_url
             /\ error.registry = "input"
        ELSE IF ~CallFactory(LastFactory("input", input.type_url), input.config).ok
        THEN error = InvalidConfigError(
                         CallFactory(LastFactory("input", input.type_url), input.config).why)
        ELSE IF vm.type # "CustomMatch" THEN pc = "loaded"
        ELSE IF vm.typed_config.type_url \notin UrlsOf("matcher")
        THEN /\ error.kind = "UnknownTypeUrlError"
             /\ error.type_url = vm.typed_config.type_url
             /\ error.registry = "matcher"
        ELSE IF ~CallFactory(LastFactory("matcher", vm.typed_config.type_url),
                             vm.typed_config.config).ok
        THEN error = InvalidConfigError(
                         CallFactory(LastFactory("matcher", vm.typed_config.type_url),
                                     vm.typed_config.config).why)
        ELSE pc = "loaded"

\* C30: after any sequence of input(u, f) and matcher(u, f) calls and
\* build(), the Registry maps each input url to the factory of its last
\* input() registration and each matcher url to that of its last matcher()
\* registration; registering a url again replaces the factory and leaves the
\* count as it was; the namespaces are separate: a url registered as an
\* input only is no matcher for contains_matcher nor for a custom_match.
C30_RegistrationSemantics ==
    /\ pc \in {"built", "inspected", "loaded", "load raised"} => TablesAsRegistered
    /\ pc = "inspected" => InspectionAsRegistered
    /\ pc \in {"loaded", "load raised"} => LoadAsRegistered

\* "a.Input" was registered as an input twice, with two factories, and never as
\* a matcher: the load called the second factory and then did not find the
\* custom matcher "a.Input"
C30_Witness ==
    /\ pc = "load raised"
    /\ Cardinality(RegistrationsOf("input", "a.Input")) = 2
    /\ calls[1].factory # LastFactory("input", "a.Input")
    /\ RegistrationsOf("matcher", "a.Input") = {}
    /\ config = SingleConfig(TypedConfig("a.Input", "x"), CustomMatch(TypedConfig("a.Input", None)))
    /\ error.kind = "UnknownTypeUrlError"
    /\ error.registry = "matcher"
    /\ Cardinality({k \in DOMAIN trace : trace[k].ev = "input_factory"}) = 1
====
